---- MODULE Spec2Model ----
(***************************************************************************)
(* The animation engine of blinkstick (animation/animator.py) with the     *)
(* task life cycle of animation/base.py and the step loop of               *)
(* animation/blink.py, as an interleaving of caller threads and worker     *)
(* threads.                                                                *)
(*                                                                         *)
(* Granularity.  Every access to a field that another thread reads or      *)
(* writes without the Animator's lock is a step of its own: _running       *)
(* (read unlocked at animator.py:101 and :146), animation_queue (put at    *)
(* :149/:181, get at :104, get_nowait at :83/:170, empty at :81/:168),     *)
(* current_animation (read unlocked at :115 and :117) and each task's      *)
(* state and _stop_event (base.py:95-96 against blink.py:52-72).  A        *)
(* `with self._lock` block that touches nothing else is one step, taken    *)
(* when the lock is free.  Queue.task_done() only counts unfinished tasks, *)
(* which nothing in the repository reads (no join()): it is not modelled.  *)
(* time.sleep() changes no state and is folded into the check after it;    *)
(* set_color() and turn_off() write to the device only, which the engine   *)
(* does not read, and are folded into the step of the check before them.   *)
(* A worker's local variable is reset once the code cannot read it again.  *)
(*                                                                         *)
(* Several specifications share the variables.  Spec, SpecQueue, SpecStart *)
(* and SpecProbe are the animation engine.  SpecInfoBlock and SpecFrame    *)
(* are the byte buffers the client (clients/base.py, utilities.py) builds  *)
(* for the device and reads back from it.                                  *)
(* SpecTransfer is control_transfer of the USB backends                    *)
(* (backends/unix_like.py, backends/win32.py) on a bus whose units are     *)
(* pulled and put back.  SpecEffect is run() of one BlinkAnimation,        *)
(* MorphAnimation or PulseAnimation, statement by statement, against a     *)
(* thread that calls cancel(), with the colours MorphAnimation computes in *)
(* Python's float arithmetic.  Each leaves the others' variables at rest.  *)
(*                                                                         *)
(* History.  The variables marked `history` record what has happened; the  *)
(* program reads none of them.  A run records one kind of history, chosen  *)
(* by `observe` in the initial state, so that the runs with different      *)
(* observers add up instead of multiplying.  The observer "call" follows   *)
(* the calls of one controlling thread and has more task objects.          *)
(***************************************************************************)
EXTENDS Integers, Sequences, FiniteSets, TLC

\* Bounds of the model.
MaxTasks == 2       \* animations submitted in one run with two controlling threads
ImmediateTasks == 4 \* animations submitted in one run with one controlling thread
MaxWorkers == 2     \* worker threads spawned in one run
NumCallers == 2     \* threads that call the Animator's methods
MaxRepeats == 2     \* the largest BlinkAnimation.repeats of a submitted animation

Tasks == 1..ImmediateTasks
Workers == 1..MaxWorkers
Callers == 1..NumCallers
None == 0

\* AnimationState (base.py:22-36)
QUEUED == "QUEUED"
RUNNING == "RUNNING"
COMPLETED == "COMPLETED"
CANCELLED == "CANCELLED"
AnimationState == {QUEUED, RUNNING, COMPLETED, CANCELLED}
Terminal == {COMPLETED, CANCELLED}

\* BlinkAnimation.repeats of each submitted animation: the first one blinks
\* MaxRepeats times, the others once.
repeats == [t \in Tasks |-> IF t = 1 THEN MaxRepeats ELSE 1]

\* What a run records.
Observers == {"none", "order", "immediate", "stop", "drain", "cancel", "call"}

VARIABLES
    observe,            \* history: the kind of history this run records
    running,            \* Animator._running
    animation_queue,    \* Animator.animation_queue, a FIFO of task ids
    current_animation,  \* Animator.current_animation, a task id or None
    lock,               \* Animator._lock: the caller holding it, or None
    spawned,            \* worker threads created so far (threading.Thread(...).start())
    state,              \* Animation.state of each task
    stop_event,         \* Animation._stop_event of each task
    submitted,          \* number of tasks put on the queue so far; task ids are put order
    immediateUsed,      \* history: animate_immediately has put a task
    wpc,                \* each worker's position in _animation_worker / run()
    animation,          \* each worker's local `animation` (animator.py:104)
    wrun,               \* the task whose run() a worker executes (self inside run())
    wi,                 \* each worker's loop index i inside BlinkAnimation.run
    cpc,                \* each caller's position in the method it is executing
    finished,           \* history: tasks put since the latest fence whose run() has returned
    fence,              \* history: tasks put before the latest stop()/animate_immediately() began or returned
    stopped,            \* history: tasks put before the latest stop() of a running Animator began
    barred,             \* history: per task, the marks explained at Mark* below
    call,               \* history: what the call holding the lock saw and did
    backend,            \* which backend class the Transport is: "unix" or "win32"
    blinkstick_device,  \* BaseBackend.blinkstick_device: the owned BlinkStickDevice
    opened,             \* the raw device the backend has opened last
    attached,           \* the USB bus: per unit, its current attachment or 0
    plugs,              \* the USB bus: per unit, how often it has been attached
    tpc,                \* the position of the thread inside control_transfer
    xfer,               \* history: the control_transfer in progress, or the last one
    lost,               \* history: a control_transfer of this Transport has raised
                        \* for want of the device
    kind,               \* the class of the animation whose run() a thread executes directly
    steps,              \* MorphAnimation.steps / PulseAnimation.steps
    target_color,       \* Animation.target_color of each animation object
    epc,                \* the position inside run() of each animation object
    ei,                 \* the loop variable of run(): i (Blink), step (Morph), x (Pulse)
    current_color,      \* MorphAnimation.run's local current_color (morph.py:60)
    led,                \* the colour the device shows
    kpc,                \* the position of the thread that calls cancel() on the animation
    last,               \* history: the latest device write of a MorphAnimation
    cancelAt,           \* history: where run() stood when cancel() set the flag
    writesAfter,        \* history: device writes begun since cancel() set the flag
    sleepsAfter,        \* history: sleeps begun since cancel() set the flag
    log,                \* history: the device reads, device writes and sleeps of run()
    probe,              \* history: what a call of start() or is_animating met
    arg,                \* history: the client's latest call with its arguments
    wire,               \* the control transfers that call has issued
    block,              \* info block 1 as the device holds it
    answer,             \* what the latest read of info_block1 or get_color gave the caller
    pixel,              \* the report of the first pixel as the device holds it
    address,            \* Animation.channel and Animation.index of the animation
    addressed           \* history: the (channel, index) pairs run() has written to

vars == <<observe, running, animation_queue, current_animation, lock, spawned, state,
          stop_event, submitted, immediateUsed, wpc, animation, wrun, wi, cpc,
          finished, fence, stopped, barred, call, backend, blinkstick_device,
          opened, attached, plugs, tpc, xfer, lost, kind, steps, target_color, epc,
          ei, current_color, led, kpc, last, cancelAt, writesAfter, sleepsAfter, log,
          probe, arg, wire, block, answer, pixel, address, addressed>>

animatorVars == <<running, animation_queue, current_animation, lock, spawned>>
taskVars == <<state, stop_event, submitted, immediateUsed>>
workerVars == <<wpc, animation, wrun, wi>>
historyVars == <<observe, finished, fence, stopped, barred, call>>
animationVars == <<animatorVars, taskVars, workerVars, cpc, historyVars, probe>>
codecVars == <<arg, wire, block, answer, pixel>>
backendVars == <<backend, blinkstick_device, opened, attached, plugs, tpc, xfer, lost>>

effectVars == <<kind, steps, target_color, epc, ei, current_color, led, kpc, last,
                cancelAt, writesAfter, sleepsAfter, log, address, addressed>>

\* The variables that the animation engine does not touch.
otherVars == <<backendVars, effectVars, codecVars, probe>>

\* No call of start() or is_animating is looked at.  on: is_animating is being
\* evaluated; is_running: what it read under the lock; busy, gap: during the
\* evaluation some state had, some state lacked, a task that is current or in
\* the queue; result: what the last evaluation returned; cold: the threads
\* whose latest start() began on an Animator that was not running.
NoProbe == [on |-> FALSE, is_running |-> FALSE, busy |-> FALSE, gap |-> FALSE,
            result |-> "none", cold |-> {}]

\* No call holds the lock.  cur0, q0 and n0 are current_animation, the queue and
\* the number of tasks put when the call took the lock; cancels lists the tasks
\* the call has called cancel() on; task is the task it has put.
NoCall == [op |-> "none", cur0 |-> None, q0 |-> <<>>, n0 |-> 0, cancels |-> <<>>,
           task |-> None]

\* The task objects and caller threads of a run.
TaskLimit == IF observe = "call" THEN ImmediateTasks ELSE MaxTasks
ActiveCallers == IF observe = "call" THEN {1} ELSE Callers

\* Thread c is one of the controlling threads and is outside every method of the
\* Animator, free to call one.
Idle(c) == c \in ActiveCallers /\ cpc[c] = "idle"

\* Animator.__init__ (animator.py:33-44); Animation.__init__ (base.py:61-68)
AnimatorInit ==
    /\ observe \in Observers
    /\ running = FALSE
    /\ animation_queue = <<>>
    /\ current_animation = None
    /\ lock = None
    /\ spawned = 0
    /\ state = [t \in Tasks |-> QUEUED]
    /\ stop_event = [t \in Tasks |-> FALSE]
    /\ submitted = 0
    /\ immediateUsed = FALSE
    /\ wpc = [w \in Workers |-> "unborn"]
    /\ animation = [w \in Workers |-> None]
    /\ wrun = [w \in Workers |-> None]
    /\ wi = [w \in Workers |-> 0]
    /\ cpc = [c \in Callers |-> "idle"]
    /\ finished = {}
    /\ fence = {}
    /\ stopped = {}
    /\ barred = [t \in Tasks |-> {}]
    /\ call = NoCall
    /\ probe = NoProbe

----------------------------------------------------------------------------
\* Helpers

\* Callers that are inside queue_animation or animate_immediately and will put a task.
PutPending == {c \in Callers : cpc[c] \in {"q_put", "imm_cancel_ev", "imm_cancel_st",
                                            "imm_empty", "imm_get", "imm_start", "imm_put"}}

\* A task object is left for one more submission (bound on the run).
CanSubmit == submitted + Cardinality(PutPending) < TaskLimit

\* Animation.is_cancelled (base.py:98-109)
is_cancelled(t) == stop_event[t]

\* A task is current or in the queue.
Busy == current_animation # None \/ animation_queue # <<>>

\* History: a step that changes current_animation or the queue, seen from an
\* is_animating under evaluation.
Watch ==
    IF probe.on
    THEN [probe EXCEPT !.busy = @ \/ Busy', !.gap = @ \/ ~Busy']
    ELSE probe

\* The body of Animator.start once the lock is held (animator.py:54-61): nothing
\* when already running, otherwise set the flag and create and start the thread.
CanStart == running \/ spawned < MaxWorkers

StartBody ==
    /\ running' = TRUE
    /\ spawned' = IF running THEN spawned ELSE spawned + 1
    /\ wpc' = IF running THEN wpc ELSE [wpc EXCEPT ![spawned + 1] = "loop"]

\* Animation.cancel (base.py:83-96) on a task no other thread can reach (just
\* taken off the queue and not current): both assignments at once.
Cancelled(t) ==
    /\ stop_event' = [stop_event EXCEPT ![t] = TRUE]
    /\ state' = [state EXCEPT ![t] = CANCELLED]

\* History, observer "cancel": cancel() is being called on t; mark t when its
\* state is still Queued and no worker has invoked its run().
MarkCancel(t) ==
    IF observe = "cancel" /\ state[t] = QUEUED /\ \A w \in Workers : wrun[w] # t
        THEN [barred EXCEPT ![t] = @ \cup {"queued_cancel"}]
        ELSE barred

\* run() has not been invoked on t and cancel() has not been called on it: its
\* state is the one __init__ gave it and no worker is inside its run().
Untouched(t) == state[t] = QUEUED /\ \A w \in Workers : wrun[w] # t

\* History, observer "stop": stop() returns; mark the tasks put before it began
\* that were not current when it began and are still untouched.
MarkStop ==
    IF observe = "stop"
        THEN [t \in Tasks |->
                IF t \in 1..call.n0 /\ Untouched(t) /\ t # call.cur0
                    THEN barred[t] \cup {"stop_pending"}
                    ELSE barred[t]]
        ELSE barred

\* History, observer "immediate": animate_immediately() returns; mark the tasks
\* put before it began that are still untouched.
MarkImmediate ==
    IF observe = "immediate"
        THEN [t \in Tasks |->
                IF t \in 1..call.n0 /\ Untouched(t)
                    THEN barred[t] \cup {"imm_pending"}
                    ELSE barred[t]]
        ELSE barred

\* History: what a call sees when it takes the lock.
Entered(op) ==
    CASE observe = "call" ->
            [NoCall EXCEPT !.op = op, !.cur0 = current_animation,
                           !.q0 = animation_queue, !.n0 = submitted]
      [] observe \in {"immediate", "stop"} ->
            [NoCall EXCEPT !.cur0 = current_animation, !.n0 = submitted]
      [] OTHER -> NoCall

\* History: the call holding the lock calls cancel() on t.
Cancels(t) ==
    IF observe = "call" THEN [call EXCEPT !.cancels = Append(@, t)] ELSE call

\* History, observer "order": a stop() or an animate_immediately() begins or
\* returns; the tasks put so far are behind the fence.
Fence == IF observe = "order" THEN 1..submitted ELSE fence

----------------------------------------------------------------------------
\* Caller threads

\* Animator.start (animator.py:46-61)
start(c) ==
    /\ Idle(c)
    /\ lock = None
    /\ CanStart
    /\ StartBody
    /\ UNCHANGED <<animation_queue, current_animation, lock, taskVars,
                   animation, wrun, wi, cpc, historyVars, otherVars>>

\* Animator.stop, lines 71-77: take the lock, return when not running, else
\* clear the flag and look at current_animation.
stop(c) ==
    /\ Idle(c)
    /\ lock = None
    /\ fence' = Fence
    /\ finished' = finished \ Fence
    /\ IF ~running
          THEN UNCHANGED <<running, lock, cpc, call, stopped>>
          ELSE /\ running' = FALSE
               /\ lock' = c
               /\ call' = Entered("stop")
               /\ stopped' = IF observe = "drain" THEN 1..submitted ELSE stopped
               /\ cpc' = [cpc EXCEPT ![c] = IF current_animation # None
                                               THEN "stop_cancel_ev"
                                               ELSE "stop_empty"]
    /\ UNCHANGED <<otherVars, observe, animation_queue, current_animation, spawned, taskVars,
                   workerVars, barred>>

\* Animation.cancel on the current animation, base.py:95: self._stop_event.set()
\* (called from animator.py:78 and :164).
cancel_event(c) ==
    /\ cpc[c] \in {"stop_cancel_ev", "imm_cancel_ev"}
    /\ stop_event' = [stop_event EXCEPT ![current_animation] = TRUE]
    /\ barred' = MarkCancel(current_animation)
    /\ call' = Cancels(current_animation)
    /\ cpc' = [cpc EXCEPT ![c] = IF @ = "stop_cancel_ev" THEN "stop_cancel_st"
                                                          ELSE "imm_cancel_st"]
    /\ UNCHANGED <<otherVars, observe, animatorVars, state, submitted, immediateUsed, workerVars,
                   finished, fence, stopped>>

\* Animation.cancel on the current animation, base.py:96: self.state = CANCELLED
cancel_state(c) ==
    /\ cpc[c] \in {"stop_cancel_st", "imm_cancel_st"}
    /\ state' = [state EXCEPT ![current_animation] = CANCELLED]
    /\ cpc' = [cpc EXCEPT ![c] = IF @ = "stop_cancel_st" THEN "stop_empty"
                                                          ELSE "imm_empty"]
    /\ UNCHANGED <<animatorVars, stop_event, submitted, immediateUsed, workerVars,
                   historyVars, otherVars>>

\* `while not self.animation_queue.empty()` (animator.py:81 and :168)
drain_empty(c) ==
    /\ cpc[c] \in {"stop_empty", "imm_empty"}
    /\ cpc' = [cpc EXCEPT ![c] =
                 IF cpc[c] = "stop_empty"
                    THEN (IF animation_queue = <<>> THEN "stop_release" ELSE "stop_get")
                    ELSE (IF animation_queue = <<>> THEN "imm_start" ELSE "imm_get")]
    /\ UNCHANGED <<animatorVars, taskVars, workerVars, historyVars, otherVars>>

\* get_nowait(); cancel(); task_done() (animator.py:82-88 and :169-174); on
\* queue.Empty the loop is left.
drain_get(c) ==
    /\ cpc[c] \in {"stop_get", "imm_get"}
    /\ IF animation_queue = <<>>
          THEN /\ cpc' = [cpc EXCEPT ![c] = IF @ = "stop_get" THEN "stop_release"
                                                               ELSE "imm_start"]
               /\ UNCHANGED <<animation_queue, state, stop_event, barred, call>>
          ELSE /\ animation_queue' = Tail(animation_queue)
               /\ Cancelled(Head(animation_queue))
               /\ barred' = MarkCancel(Head(animation_queue))
               /\ call' = Cancels(Head(animation_queue))
               /\ cpc' = [cpc EXCEPT ![c] = IF @ = "stop_get" THEN "stop_empty"
                                                               ELSE "imm_empty"]
    /\ UNCHANGED <<backendVars, effectVars, codecVars, observe, running,
                   current_animation, lock, spawned, submitted,
                   immediateUsed, workerVars, finished, fence, stopped>>
    /\ probe' = Watch

\* The end of stop's `with` block (animator.py:89-90): the lock is released and
\* stop() returns.
stop_release(c) ==
    /\ cpc[c] = "stop_release"
    /\ lock' = None
    /\ cpc' = [cpc EXCEPT ![c] = "idle"]
    /\ call' = NoCall
    /\ fence' = Fence
    /\ finished' = finished \ Fence
    /\ barred' = MarkStop
    /\ UNCHANGED <<otherVars, observe, running, animation_queue, current_animation, spawned,
                   taskVars, workerVars, stopped>>

\* queue_animation without lines 146-147: the Animator is not started.
queue_animation_no_start(c) ==
    /\ Idle(c)
    /\ CanSubmit
    /\ cpc' = [cpc EXCEPT ![c] = "q_put"]
    /\ UNCHANGED <<animatorVars, taskVars, workerVars, historyVars, otherVars>>

\* Animator.queue_animation, lines 146-147: `if not self._running: self.start()`.
\* The flag is read without the lock; start() reads it again under the lock, so
\* the read that finds it False and the start() it leads to act as start() alone.
queue_animation(c) ==
    /\ Idle(c)
    /\ CanSubmit
    /\ IF running
          THEN UNCHANGED <<running, spawned, wpc>>
          ELSE lock = None /\ CanStart /\ StartBody
    /\ cpc' = [cpc EXCEPT ![c] = "q_put"]
    /\ UNCHANGED <<animation_queue, current_animation, lock, taskVars,
                   animation, wrun, wi, historyVars, otherVars>>

\* Animator.queue_animation, line 149: self.animation_queue.put(animation)
queue_put(c) ==
    /\ cpc[c] = "q_put"
    /\ submitted' = submitted + 1
    /\ animation_queue' = Append(animation_queue, submitted + 1)
    /\ cpc' = [cpc EXCEPT ![c] = "idle"]
    /\ UNCHANGED <<running, current_animation, lock, spawned, state, stop_event,
                   immediateUsed, workerVars, historyVars, backendVars, effectVars,
                   codecVars>>
    /\ probe' = Watch

\* Animator.animate_immediately, lines 161-163: take the lock and look at
\* current_animation.
animate_immediately(c) ==
    /\ Idle(c)
    /\ lock = None
    /\ CanSubmit
    /\ CanStart
    /\ lock' = c
    /\ call' = Entered("animate_immediately")
    /\ fence' = Fence
    /\ finished' = finished \ Fence
    /\ cpc' = [cpc EXCEPT ![c] = IF current_animation # None THEN "imm_cancel_ev"
                                                              ELSE "imm_empty"]
    /\ UNCHANGED <<otherVars, observe, running, animation_queue, current_animation, spawned,
                   taskVars, workerVars, stopped, barred>>

\* Animator.animate_immediately, lines 177-178: `if not self._running: self.start()`
\* (the lock is reentrant, the caller already holds it).
imm_start(c) ==
    /\ cpc[c] = "imm_start"
    /\ StartBody
    /\ cpc' = [cpc EXCEPT ![c] = "imm_put"]
    /\ UNCHANGED <<animation_queue, current_animation, lock, taskVars,
                   animation, wrun, wi, historyVars, otherVars>>

\* Animator.animate_immediately, line 181: self.animation_queue.put(animation)
imm_put(c) ==
    /\ cpc[c] = "imm_put"
    /\ submitted' = submitted + 1
    /\ animation_queue' = Append(animation_queue, submitted + 1)
    /\ immediateUsed' = (observe = "drain" \/ immediateUsed)
    /\ call' = IF observe = "call" THEN [call EXCEPT !.task = submitted + 1] ELSE call
    /\ cpc' = [cpc EXCEPT ![c] = "imm_release"]
    /\ UNCHANGED <<backendVars, effectVars, codecVars, observe, running,
                   current_animation, lock, spawned, state,
                   stop_event, workerVars, finished, fence, stopped, barred>>
    /\ probe' = Watch

\* The end of animate_immediately's `with` block: the lock is released and the
\* call returns.
imm_release(c) ==
    /\ cpc[c] = "imm_release"
    /\ lock' = None
    /\ cpc' = [cpc EXCEPT ![c] = "idle"]
    /\ call' = NoCall
    /\ fence' = Fence
    /\ finished' = finished \ Fence
    /\ barred' = MarkImmediate
    /\ UNCHANGED <<otherVars, observe, running, animation_queue, current_animation, spawned,
                   taskVars, workerVars, stopped>>

----------------------------------------------------------------------------
\* Worker threads: Animator._animation_worker (animator.py:92-135)

\* worker_loop with the mistake of `while True`: the flag is not looked at.
worker_loop_forever(w) ==
    /\ wpc[w] = "loop"
    /\ wpc' = [wpc EXCEPT ![w] = "get"]
    /\ UNCHANGED <<animatorVars, taskVars, animation, wrun, wi, cpc, historyVars, otherVars>>

\* line 101: `while self._running`
worker_loop(w) ==
    /\ wpc[w] = "loop"
    /\ wpc' = [wpc EXCEPT ![w] = IF running THEN "get" ELSE "exited"]
    /\ UNCHANGED <<animatorVars, taskVars, animation, wrun, wi, cpc, historyVars, otherVars>>

\* line 104: animation = self.animation_queue.get(timeout=0.1); on queue.Empty
\* (lines 128-130) the loop continues.
worker_get(w) ==
    /\ wpc[w] = "get"
    /\ IF animation_queue = <<>>
          THEN /\ wpc' = [wpc EXCEPT ![w] = "loop"]
               /\ UNCHANGED <<animation_queue, animation>>
          ELSE /\ animation' = [animation EXCEPT ![w] = Head(animation_queue)]
               /\ animation_queue' = Tail(animation_queue)
               /\ wpc' = [wpc EXCEPT ![w] = "lock"]
    /\ UNCHANGED <<running, current_animation, lock, spawned, taskVars, wrun, wi,
                   cpc, historyVars, backendVars, effectVars,
                   codecVars>>
    /\ probe' = Watch

\* worker_lock with the mistake of calling run() inside the `with` block of
\* lines 105-111: the worker keeps the lock when it goes on to the animation.
\* A lock held by worker w is the value 0 - w.
worker_lock_kept(w) ==
    /\ wpc[w] = "lock"
    /\ lock = None
    /\ IF ~running
          THEN /\ Cancelled(animation[w])
               /\ barred' = MarkCancel(animation[w])
               /\ wpc' = [wpc EXCEPT ![w] = "exited"]
               /\ UNCHANGED <<current_animation, lock>>
          ELSE /\ current_animation' = animation[w]
               /\ wpc' = [wpc EXCEPT ![w] = "check"]
               /\ lock' = 0 - w
               /\ UNCHANGED <<state, stop_event, barred>>
    /\ animation' = [animation EXCEPT ![w] = None]
    /\ UNCHANGED <<backendVars, effectVars, codecVars, observe, running,
                   animation_queue, spawned, submitted,
                   immediateUsed, wrun, wi, cpc, finished, fence, stopped, call>>
    /\ probe' = Watch

\* lines 105-111: under the lock, cancel the animation and leave the loop when
\* stop() was called, else make it current.
worker_lock(w) ==
    /\ wpc[w] = "lock"
    /\ lock = None
    /\ IF ~running
          THEN /\ Cancelled(animation[w])
               /\ barred' = MarkCancel(animation[w])
               /\ wpc' = [wpc EXCEPT ![w] = "exited"]
               /\ UNCHANGED current_animation
          ELSE /\ current_animation' = animation[w]
               /\ wpc' = [wpc EXCEPT ![w] = "check"]
               /\ UNCHANGED <<state, stop_event, barred>>
    /\ animation' = [animation EXCEPT ![w] = None]
    /\ UNCHANGED <<backendVars, effectVars, codecVars, observe, running,
                   animation_queue, lock, spawned, submitted,
                   immediateUsed, wrun, wi, cpc, finished, fence, stopped, call>>
    /\ probe' = Watch

\* line 115: `if self.current_animation:` (read without the lock); when it is
\* None, line 126 and the next iteration.
worker_check(w) ==
    /\ wpc[w] = "check"
    /\ wpc' = [wpc EXCEPT ![w] = IF current_animation # None THEN "call" ELSE "loop"]
    /\ UNCHANGED <<animatorVars, taskVars, animation, wrun, wi, cpc, historyVars, otherVars>>

\* line 117: self.current_animation.run() -- the field is read again, and run()
\* is invoked on what it holds now; on None the AttributeError is caught at
\* line 118 and the finally block follows.
worker_call(w) ==
    /\ wpc[w] = "call"
    /\ IF current_animation = None
          THEN /\ wpc' = [wpc EXCEPT ![w] = "finally"]
               /\ UNCHANGED wrun
          ELSE /\ wrun' = [wrun EXCEPT ![w] = current_animation]
               /\ wpc' = [wpc EXCEPT ![w] = "run_start"]
    /\ UNCHANGED <<animatorVars, taskVars, animation, wi, cpc, historyVars, otherVars>>

\* run() returns to the worker (a `return` or the end of the method).
Return(w) ==
    /\ wpc' = [wpc EXCEPT ![w] = "finally"]
    /\ finished' = IF observe = "order" /\ wrun[w] \notin fence
                      THEN finished \cup {wrun[w]}
                      ELSE finished
    /\ wrun' = [wrun EXCEPT ![w] = None]
    /\ wi' = [wi EXCEPT ![w] = 0]

\* BlinkAnimation.run, line 52: self.state = AnimationState.RUNNING
run_start(w) ==
    /\ wpc[w] = "run_start"
    /\ state' = [state EXCEPT ![wrun[w]] = RUNNING]
    /\ wpc' = [wpc EXCEPT ![w] = "run_top"]
    /\ UNCHANGED <<animatorVars, stop_event, submitted, immediateUsed, animation,
                   wrun, wi, cpc, historyVars, otherVars>>

\* BlinkAnimation.run, lines 54-56 and 63-65: `for i in range(self.repeats)`,
\* the check of the flag at the head of the body and, in the first iteration
\* (i = 0, so lines 58-61 are skipped), set_color(target_color).
run_top(w) ==
    /\ wpc[w] = "run_top"
    /\ IF wi[w] >= repeats[wrun[w]]
          THEN /\ wpc' = [wpc EXCEPT ![w] = "run_end"]
               /\ UNCHANGED <<wrun, wi, finished>>
          ELSE IF is_cancelled(wrun[w])
                  THEN Return(w)
                  ELSE /\ wpc' = [wpc EXCEPT ![w] = IF wi[w] > 0 THEN "run_wait"
                                                                 ELSE "run_sleep"]
                       /\ UNCHANGED <<wrun, wi, finished>>
    /\ UNCHANGED <<otherVars, observe, animatorVars, taskVars, animation, cpc, fence,
                   stopped, barred, call>>

\* BlinkAnimation.run, lines 58-65: when i > 0, sleep, then check the flag, then
\* set_color(target_color).
run_wait(w) ==
    /\ wpc[w] = "run_wait"
    /\ IF is_cancelled(wrun[w])
          THEN Return(w)
          ELSE /\ wpc' = [wpc EXCEPT ![w] = "run_sleep"]
               /\ UNCHANGED <<wrun, wi, finished>>
    /\ UNCHANGED <<otherVars, observe, animatorVars, taskVars, animation, cpc, fence,
                   stopped, barred, call>>

\* BlinkAnimation.run, lines 66-70: sleep, then check the flag, then turn_off()
\* and the next iteration.
run_sleep(w) ==
    /\ wpc[w] = "run_sleep"
    /\ IF is_cancelled(wrun[w])
          THEN Return(w)
          ELSE /\ wpc' = [wpc EXCEPT ![w] = "run_top"]
               /\ wi' = [wi EXCEPT ![w] = @ + 1]
               /\ UNCHANGED <<wrun, finished>>
    /\ UNCHANGED <<otherVars, observe, animatorVars, taskVars, animation, cpc, fence,
                   stopped, barred, call>>

\* run_raise as it would be without the `except Exception` of
\* animator.py:118: the exception ends the worker thread.
run_raise_uncaught(w) ==
    /\ wpc[w] \in {"run_top", "run_wait", "run_sleep"}
    /\ wpc[w] = "run_top" => wi[w] = 0
    /\ ~is_cancelled(wrun[w])
    /\ wpc' = [wpc EXCEPT ![w] = "exited"]
    /\ wrun' = [wrun EXCEPT ![w] = None]
    /\ wi' = [wi EXCEPT ![w] = 0]
    /\ UNCHANGED <<otherVars, observe, animatorVars, taskVars, animation, cpc, finished, fence,
                   stopped, barred, call>>

\* A device write of BlinkAnimation.run (set_color at lines 63-65, turn_off at
\* line 70) raises, e.g. the BlinkStickException of control_transfer: the
\* exception leaves run() with the state as it is and is caught at
\* animator.py:118-120, and the finally block follows.  The write is the one
\* that the step at this position ends with, after its check found no
\* cancellation.
run_raise(w) ==
    /\ wpc[w] \in {"run_top", "run_wait", "run_sleep"}
    /\ wpc[w] = "run_top" => wi[w] = 0
    /\ ~is_cancelled(wrun[w])
    /\ Return(w)
    /\ UNCHANGED <<otherVars, observe, animatorVars, taskVars, animation, cpc, fence,
                   stopped, barred, call>>

\* BlinkAnimation.run, line 72: self.state = AnimationState.COMPLETED
run_end(w) ==
    /\ wpc[w] = "run_end"
    /\ state' = [state EXCEPT ![wrun[w]] = COMPLETED]
    /\ Return(w)
    /\ UNCHANGED <<otherVars, observe, animatorVars, stop_event, submitted, immediateUsed,
                   animation, cpc, fence, stopped, barred, call>>

\* lines 121-126: under the lock, self.current_animation = None; then the next
\* iteration.
worker_finally(w) ==
    /\ wpc[w] = "finally"
    /\ lock = None
    /\ current_animation' = None
    /\ wpc' = [wpc EXCEPT ![w] = "loop"]
    /\ UNCHANGED <<running, animation_queue, lock, spawned, taskVars, animation,
                   wrun, wi, cpc, historyVars, backendVars, effectVars,
                   codecVars>>
    /\ probe' = Watch

----------------------------------------------------------------------------
\* The USB transport: BaseBackend with UnixLikeBackend (backends/unix_like.py)
\* and Win32Backend (backends/win32.py).  The bus holds NumUnits BlinkStick units
\* with the same vendor and product id; a unit's serial number is its number.
\* Every attachment of a unit is a raw device of its own: a raw device works
\* while that attachment lasts.

NumUnits == 2       \* BlinkStick units on the bus
MaxPlugs == 2       \* attachments of one unit in one run
Units == 1..NumUnits
Backends == {"unix", "win32"}
Requests == {"write", "read"}   \* bmRequestType 0x20 and 0x80 | 0x20

\* BlinkStickDevice(raw_device=..., serial_details=SerialDetails(serial=...)) as
\* enumeration builds it for attachment g of unit u (unix_like.py:143-151).
BlinkStickDevice(u, g) == [raw_device |-> [unit |-> u, plug |-> g], serial |-> u]

\* get_attached_blinkstick_devices(): the devices on the bus, in bus order.
get_attached_blinkstick_devices ==
    SelectSeq([u \in Units |-> BlinkStickDevice(u, attached[u])],
              LAMBDA d : d.raw_device.plug # 0)

\* find_by_serial without the comparison of serial numbers: the first device
\* with the vendor and product id.
find_by_vendor_product(serial) ==
    IF get_attached_blinkstick_devices = <<>>
       THEN <<>>
       ELSE <<get_attached_blinkstick_devices[1]>>

\* find_by_serial(serial): a list with the first device of that serial number,
\* or None (here the empty list; both are falsy at unix_like.py:105).
find_by_serial(serial) ==
    LET found == SelectSeq(get_attached_blinkstick_devices,
                           LAMBDA d : d.serial = serial)
    IN  IF found = <<>> THEN <<>> ELSE <<found[1]>>

\* What a transfer on a raw device can do: it fails when the attachment is gone,
\* and may fail on a transient I/O error while it lasts.
TransferResults(raw) ==
    IF attached[raw.unit] = raw.plug THEN {"ok", "fail"} ELSE {"fail"}

\* History of a control_transfer: the request, the transfers attempted and the
\* discovery passes made, how the first attempt, the discovery and the retry
\* went, the raw device of the last transfer, what the caller got ("ok", a
\* "BlinkStickException", or the "raw_error" of the USB library), and the device
\* owned when the call began.
NewTransfer(req) ==
    [request |-> req, attempts |-> 0, discoveries |-> 0, first |-> "none",
     found |-> "none", retry |-> "none", on |-> blinkstick_device.raw_device,
     outcome |-> "none", before |-> blinkstick_device]

\* BaseBackend.__init__ and UnixLikeBackend.__init__ (unix_like.py:53-68),
\* Win32Backend.__init__ (win32.py:47-63): all units attached, the Transport
\* built on one of them and opened.
BackendInit ==
    /\ backend \in Backends
    /\ attached = [u \in Units |-> 1]
    /\ plugs = [u \in Units |-> 1]
    /\ \E u \in Units : blinkstick_device = BlinkStickDevice(u, 1)
    /\ opened = blinkstick_device.raw_device
    /\ tpc = "idle"
    /\ xfer = NewTransfer("none")
    /\ lost = FALSE

\* The call returns or raises: outcome is what the caller gets.
Leave(o, outcome) ==
    /\ tpc' = "idle"
    /\ xfer' = [o EXCEPT !.outcome = outcome]
    /\ lost' = (lost \/ outcome = "BlinkStickException")

\* control_transfer, the first attempt (unix_like.py:225-229, win32.py:171-181
\* and 191-192).  A failed read on win32 has no recovery: the library's error
\* reaches the caller.
control_transfer(req) ==
    /\ tpc = "idle"
    /\ \E result \in TransferResults(blinkstick_device.raw_device) :
          LET o == [NewTransfer(req) EXCEPT !.attempts = 1, !.first = result]
          IN  IF result = "ok"
                 THEN Leave(o, "ok")
                 ELSE IF backend = "win32" /\ req = "read"
                         THEN Leave(o, "raw_error")
                         ELSE /\ tpc' = "refresh"
                              /\ xfer' = o
                              /\ UNCHANGED lost
    /\ UNCHANGED <<animationVars, effectVars, codecVars, backend, blinkstick_device, opened, attached, plugs>>

\* refresh taking a discovery that found nothing for a success: the call goes
\* on to the retry.
refresh_unchecked ==
    /\ tpc = "refresh"
    /\ LET o == [xfer EXCEPT !.discoveries = @ + 1]
           devices == find_by_serial(blinkstick_device.serial)
       IN  /\ blinkstick_device' = IF devices # <<>> THEN devices[1]
                                                     ELSE blinkstick_device
           /\ xfer' = [o EXCEPT !.found = IF devices # <<>> THEN "yes" ELSE "no"]
           /\ tpc' = IF devices # <<>> THEN "open" ELSE "retry"
           /\ UNCHANGED lost
    /\ UNCHANGED <<animationVars, effectVars, codecVars, backend, opened, attached, plugs>>

\* _refresh_attached_blinkstick_device up to the replacement of the owned device
\* (unix_like.py:103-106, win32.py:101-104), and the `else` of control_transfer
\* when it returns nothing (unix_like.py:237-242, win32.py:184-189).  On unix
\* the enumeration itself may raise usb.core.USBError (unix_like.py:154-160).
refresh ==
    /\ tpc = "refresh"
    /\ LET o == [xfer EXCEPT !.discoveries = @ + 1]
           devices == find_by_serial(blinkstick_device.serial)
       IN  \/ /\ backend = "unix"
              /\ Leave([o EXCEPT !.found = "error"], "raw_error")
              /\ UNCHANGED blinkstick_device
           \/ /\ devices # <<>>
              /\ blinkstick_device' = devices[1]
              /\ xfer' = [o EXCEPT !.found = "yes"]
              /\ tpc' = "open"
              /\ UNCHANGED lost
           \/ /\ devices = <<>>
              /\ Leave([o EXCEPT !.found = "no"], "BlinkStickException")
              /\ UNCHANGED blinkstick_device
    /\ UNCHANGED <<animationVars, effectVars, codecVars, backend, opened, attached, plugs>>

\* reopen without the call of open_device() / raw_device.open(): the device
\* found is owned but not opened.
reopen_skipped ==
    /\ tpc = "open"
    /\ tpc' = "retry"
    /\ UNCHANGED <<animationVars, effectVars, codecVars, backend, blinkstick_device, opened, attached, plugs,
                   xfer, lost>>

\* _refresh_attached_blinkstick_device, the re-opening: open_device()
\* (unix_like.py:107 with 82-89) and raw_device.open() (win32.py:105-106).  When
\* the attachment is gone by now, is_kernel_driver_active raises usb.core.USBError
\* or detach_kernel_driver does, which open_device turns into a
\* BlinkStickException; on win32 the library's error reaches the caller.
reopen ==
    /\ tpc = "open"
    /\ IF attached[blinkstick_device.raw_device.unit] = blinkstick_device.raw_device.plug
          THEN /\ opened' = blinkstick_device.raw_device
               /\ tpc' = "retry"
               /\ UNCHANGED <<xfer, lost>>
          ELSE /\ \E e \in (IF backend = "unix"
                               THEN {"raw_error", "BlinkStickException"}
                               ELSE {"raw_error"}) : Leave(xfer, e)
               /\ UNCHANGED opened
    /\ UNCHANGED <<animationVars, effectVars, codecVars, backend, blinkstick_device, attached, plugs>>

\* retry as a loop: a failed retry goes back to the discovery.
retry_again ==
    /\ tpc = "retry"
    /\ \E result \in TransferResults(blinkstick_device.raw_device) :
          LET o == [xfer EXCEPT !.attempts = @ + 1, !.retry = result,
                              !.on = blinkstick_device.raw_device]
          IN  IF result = "ok"
                 THEN Leave(o, "ok")
                 ELSE tpc' = "refresh" /\ xfer' = o /\ UNCHANGED lost
    /\ UNCHANGED <<animationVars, effectVars, codecVars, backend, blinkstick_device, opened, attached, plugs>>

\* control_transfer, the second attempt on the device now owned
\* (unix_like.py:234-236, win32.py:183).  On unix it stands in the except block
\* outside any try, so its usb.core.USBError reaches the caller; on win32 the
\* value of send_feature_report is dropped and the call returns as on success.
retry ==
    /\ tpc = "retry"
    /\ \E result \in TransferResults(blinkstick_device.raw_device) :
          LET o == [xfer EXCEPT !.attempts = @ + 1, !.retry = result,
                              !.on = blinkstick_device.raw_device]
          IN  Leave(o, IF result = "ok" \/ backend = "win32" THEN "ok" ELSE "raw_error")
    /\ UNCHANGED <<animationVars, effectVars, codecVars, backend, blinkstick_device, opened, attached, plugs>>

\* A unit is pulled from the bus.
unplug(u) ==
    /\ attached[u] # 0
    /\ attached' = [attached EXCEPT ![u] = 0]
    /\ UNCHANGED <<animationVars, effectVars, codecVars, backend, blinkstick_device, opened, plugs, tpc, xfer,
                   lost>>

\* A unit is put back on the bus: a new attachment.
plug(u) ==
    /\ attached[u] = 0
    /\ plugs[u] < MaxPlugs
    /\ plugs' = [plugs EXCEPT ![u] = @ + 1]
    /\ attached' = [attached EXCEPT ![u] = plugs[u] + 1]
    /\ UNCHANGED <<animationVars, effectVars, codecVars, backend, blinkstick_device, opened, tpc, xfer, lost>>

\* The caller discovers the devices from scratch and builds a new Transport on
\* one of them (unix_like.py:53-68, win32.py:47-63).
new_transport(u) ==
    /\ tpc = "idle"
    /\ attached[u] # 0
    /\ blinkstick_device' = BlinkStickDevice(u, attached[u])
    /\ opened' = [unit |-> u, plug |-> attached[u]]
    /\ xfer' = [NewTransfer("none") EXCEPT !.on = opened', !.before = blinkstick_device']
    /\ lost' = FALSE
    /\ UNCHANGED <<animationVars, effectVars, codecVars, backend, attached, plugs, tpc>>

\* The Transport at rest, while the animation engine is looked at.
BackendRest ==
    /\ backend = "unix"
    /\ attached = [u \in Units |-> 1]
    /\ plugs = [u \in Units |-> 1]
    /\ blinkstick_device = BlinkStickDevice(1, 1)
    /\ opened = blinkstick_device.raw_device
    /\ tpc = "idle"
    /\ xfer = NewTransfer("none")
    /\ lost = FALSE

----------------------------------------------------------------------------
\* Python's float arithmetic.
\*
\* MorphAnimation.run (morph.py:63-73) computes in IEEE 754 binary64: the
\* true division int / int, the product float * int and the sum int + float
\* are each rounded to 53 significant bits, ties to even, and int() drops the
\* fraction.  A magnitude is kept exactly, as a fixed-point number of Limbs
\* limbs of LimbBits bits each, least significant first, FracLimbs of them
\* after the binary point; every value that occurs here is a multiple of
\* 2^-(LimbBits * FracLimbs) and smaller than 2^LimbBits.

LimbBits == 15
FracLimbs == 4
Limbs == FracLimbs + 1
MantissaBits == 53

RECURSIVE Pow2(_)
Pow2(e) == IF e = 0 THEN 1 ELSE 2 * Pow2(e - 1)

Base == Pow2(LimbBits)

\* The integer a as a magnitude, and the integer part of a magnitude.
FromInt(a) == [i \in 1..Limbs |-> IF i = FracLimbs + 1 THEN a ELSE 0]

ToInt(x) == x[FracLimbs + 1]

\* Bit j of a magnitude, counted from the least significant bit 0.
Bit(x, j) == (x[(j \div LimbBits) + 1] \div Pow2(j % LimbBits)) % 2

\* Long division of the magnitude x by the integer n, most significant limb
\* first: the quotient rounded down, and the remainder.
RECURSIVE Divide(_, _, _, _)
Divide(x, n, i, rem) ==
    IF i = 0 THEN [limbs |-> <<>>, rem |-> rem]
    ELSE LET cur == rem * Base + x[i]
             rest == Divide(x, n, i - 1, cur % n)
         IN  [limbs |-> Append(rest.limbs, cur \div n), rem |-> rest.rem]

RECURSIVE Add(_, _, _)
Add(x, y, c) ==
    IF x = <<>> THEN <<>>
    ELSE LET s == Head(x) + Head(y) + c
         IN  <<s % Base>> \o Add(Tail(x), Tail(y), s \div Base)

\* x - y for x >= y.
RECURSIVE Sub(_, _, _)
Sub(x, y, b) ==
    IF x = <<>> THEN <<>>
    ELSE LET d == Head(x) - Head(y) - b
         IN  <<d % Base>> \o Sub(Tail(x), Tail(y), IF d < 0 THEN 1 ELSE 0)

RECURSIVE Mul(_, _, _)
Mul(x, k, c) ==
    IF x = <<>> THEN <<>>
    ELSE LET s == Head(x) * k + c
         IN  <<s % Base>> \o Mul(Tail(x), k, s \div Base)

\* x < y, compared from limb i down.
RECURSIVE Less(_, _, _)
Less(x, y, i) ==
    IF i = 0 THEN FALSE
    ELSE IF x[i] # y[i] THEN x[i] < y[i]
    ELSE Less(x, y, i - 1)

\* The number of bits up to the leading one.
BitLength(x) ==
    IF \A i \in 1..Limbs : x[i] = 0 THEN 0
    ELSE LET top == CHOOSE i \in 1..Limbs : x[i] # 0 /\ \A j \in (i + 1)..Limbs : x[j] = 0
             b == CHOOSE b \in 1..LimbBits : Pow2(b - 1) <= x[top] /\ x[top] < Pow2(b)
         IN  LimbBits * (top - 1) + b

\* Rounding to MantissaBits significant bits, ties to even.  sticky: the exact
\* value is larger than x by less than one unit of x's last bit.
Round(x, sticky) ==
    LET cut == BitLength(x) - MantissaBits
    IN  IF cut <= 0 THEN x
        ELSE LET c == cut \div LimbBits
                 r == cut % LimbBits
                 low == sticky \/ \E j \in 0..(cut - 2) : Bit(x, j) = 1
                 kept == [i \in 1..Limbs |->
                            IF i <= c THEN 0
                            ELSE IF i = c + 1 THEN (x[i] \div Pow2(r)) * Pow2(r)
                            ELSE x[i]]
                 ulp == [i \in 1..Limbs |-> IF i = c + 1 THEN Pow2(r) ELSE 0]
             IN  IF Bit(x, cut - 1) = 1 /\ (low \/ Bit(x, cut) = 1)
                 THEN Add(kept, ulp, 0)
                 ELSE kept

Abs(d) == IF d < 0 THEN -d ELSE d

\* int / int
TrueDiv(d, n) ==
    LET q == Divide(FromInt(Abs(d)), n, Limbs, 0)
    IN  [neg |-> d < 0, mag |-> Round(q.limbs, q.rem # 0)]

\* float * int, for an int k >= 0
Times(x, k) == [neg |-> x.neg, mag |-> Round(Mul(x.mag, k, 0), FALSE)]

\* int + float, for an int s >= 0
Plus(s, x) ==
    LET a == FromInt(s)
    IN  IF ~x.neg THEN [neg |-> FALSE, mag |-> Round(Add(a, x.mag, 0), FALSE)]
        ELSE IF Less(a, x.mag, Limbs)
        THEN [neg |-> TRUE, mag |-> Round(Sub(x.mag, a, 0), FALSE)]
        ELSE [neg |-> FALSE, mag |-> Round(Sub(a, x.mag, 0), FALSE)]

\* int(float): towards zero
int(x) == IF x.neg THEN -ToInt(x.mag) ELSE ToInt(x.mag)

Max(a, b) == IF a > b THEN a ELSE b
Min(a, b) == IF a < b THEN a ELSE b

\* One channel of MorphAnimation.run's intermediate colour (morph.py:63-77):
\* red_step = (target - current) / steps; int(current + red_step * step);
\* max(0, min(255, .)).
Interpolate(s, t, n, k) == Max(0, Min(255, int(Plus(s, Times(TrueDiv(t - s, n), k)))))

\* The same channel in exact arithmetic: s + (t - s) * k / n lies between s and
\* t, so truncating it is rounding it down.
Exact(s, t, n, k) == Max(0, Min(255, (s * n + (t - s) * k) \div n))

----------------------------------------------------------------------------
\* The byte buffers of the client: clients/base.py, utilities.py and colors.py.
\* A string is the sequence of its code points, a buffer the sequence of its
\* bytes.  The transfer itself is taken to succeed.  The device keeps an info
\* block as the bytes it was sent and answers a read with them, the leading
\* byte first, as it answers the read of a colour (base.py:330-340).  Info
\* block 2 differs from info block 1 in the report id only (base.py:550-585).

MaxLen == 40        \* code points of a string written to an info block
MaxData == 194      \* bytes of LED frame data passed to set_led_data

\* utilities.py:27
max_buffer_size == 31

\* The strings written: n times "a", with one code point replaced by U+0000 or
\* by U+00E9 at the head or about the place where the block ends.
Filler == 97
Specials == {0, 233}
SpecialAt == {1, max_buffer_size - 1, max_buffer_size, max_buffer_size + 1}
Str(n, p, x) == [i \in 1..n |-> IF i = p THEN x ELSE Filler]
Strings ==
    {Str(n, 0, Filler) : n \in 0..MaxLen}
        \cup {Str(n, p, x) : n \in 1..MaxLen, p \in SpecialAt, x \in Specials}

\* str.encode("utf-8") for code points below U+0800
utf8(cp) == IF cp < 128 THEN <<cp>> ELSE <<192 + (cp \div 64), 128 + (cp % 64)>>

RECURSIVE encode(_)
encode(data) == IF data = <<>> THEN <<>> ELSE utf8(Head(data)) \o encode(Tail(data))

Zeros(n) == [i \in 1..n |-> 0]

\* bytes.ljust(width, b"\x00")
ljust(b, width) == IF Len(b) >= width THEN b ELSE b \o Zeros(width - Len(b))

\* The conversion without the slice [:max_buffer_size].
info_block_data_untruncated(data) == <<1>> \o ljust(encode(data), max_buffer_size)

\* utilities.py:13-30
string_to_info_block_data(data) ==
    <<1>> \o ljust(SubSeq(encode(data), 1, Min(Len(encode(data)), max_buffer_size)),
                   max_buffer_size)

\* chr(i): the code point numbered i
chr(i) == i

\* base.py:526-530: the characters up to the first zero byte, or up to the end
RECURSIVE result(_)
result(bytes) ==
    IF bytes = <<>> \/ Head(bytes) = 0 THEN <<>>
    ELSE <<chr(Head(bytes))>> \o result(Tail(bytes))

\* backend.control_transfer(bmRequestType, bRequest, wValue, wIndex,
\* data_or_wLength)
Transfer(request_type, request, value, data) ==
    [request_type |-> request_type, request |-> request, value |-> value,
     index |-> 0, data |-> data]

\* No call yet; the client as constructed (base.py:92-93).
NoArg == [op |-> "none", data |-> <<>>, color |-> <<0, 0, 0>>, channel |-> 0,
          index |-> 0, inverse |-> FALSE, max_rgb_value |-> 255, prev |-> "none"]

\* No read of info_block1 yet.
NoAnswer == [done |-> FALSE, raised |-> FALSE, value |-> <<>>]

\* The device holds an empty info block.
CodecInit ==
    /\ arg = NoArg
    /\ wire = <<>>
    /\ block = string_to_info_block_data(<<>>)
    /\ answer = NoAnswer
    /\ pixel = <<0, 0, 0, 0>>

\* info_block1.setter, base.py:534-548
info_block1_set ==
    \E data \in Strings :
        /\ arg' = [NoArg EXCEPT !.op = "info_block1_set", !.data = data]
        /\ wire' = <<Transfer(32, 9, 2, string_to_info_block_data(data))>>
        /\ block' = string_to_info_block_data(data)
        /\ answer' = NoAnswer
        /\ UNCHANGED <<pixel, animationVars, backendVars, effectVars>>

\* info_block1 getter, base.py:510-532: device_bytes is the block; nothing in
\* the getter raises.
info_block1_get ==
    /\ arg' = [arg EXCEPT !.op = "info_block1_get"]
    /\ wire' = <<Transfer(160, 1, 2, 33)>>
    /\ answer' = [done |-> TRUE, raised |-> FALSE, value |-> result(Tail(block))]
    /\ UNCHANGED <<block, pixel, animationVars, backendVars, effectVars>>

\* The arguments of set_color and the client's fields at the call.
FrameColours == {<<0, 0, 0>>, <<255, 0, 0>>, <<147, 200, 1>>, <<51, 128, 254>>}
ChannelValues == 0..2
Indices == {0, 1, 63}
MaxValues == {255, 85, 0}

\* RGBColor.__invert__, colors.py:75-87
invert(c) == <<255 - c[1], 255 - c[2], 255 - c[3]>>

\* colors.py:168-170: int((value / 255.0) * max_value), computed once for every
\* component and every clamped maximum in use
Remapped ==
    [value \in 0..255, max_value \in {Max(0, Min(m, 255)) : m \in MaxValues} |->
        int(Times(TrueDiv(value, 255), max_value))]

remap_component(value, max_value) == Remapped[value, max_value]

\* RGBColor.remap_to_new_range, colors.py:150-176
remap_to_new_range(c, max_value) ==
    LET clamped == Max(0, Min(max_value, 255))
    IN  <<remap_component(c[1], clamped), remap_component(c[2], clamped),
          remap_component(c[3], clamped)>>

\* set_color with the six-byte form for every address.
set_color_addressed ==
    \E color \in FrameColours, channel \in ChannelValues, index \in Indices,
       inverse \in BOOLEAN, max_rgb_value \in MaxValues :
        LET target == IF inverse THEN invert(color) ELSE color
            rgb == remap_to_new_range(target, max_rgb_value)
        IN  /\ arg' = [NoArg EXCEPT !.op = "set_color", !.color = color,
                                    !.channel = channel, !.index = index,
                                    !.inverse = inverse,
                                    !.max_rgb_value = max_rgb_value]
            /\ wire' = <<Transfer(32, 9, 5, <<5, channel, index>> \o rgb)>>
            /\ UNCHANGED <<block, answer, pixel, animationVars, backendVars, effectVars>>

\* BlinkStickClientBase.set_color, base.py:263-315
set_color ==
    \E color \in FrameColours, channel \in ChannelValues, index \in Indices,
       inverse \in BOOLEAN, max_rgb_value \in MaxValues :
        LET target == IF inverse THEN invert(color) ELSE color
            rgb == remap_to_new_range(target, max_rgb_value)
            single == index = 0 /\ channel = 0
            control_string == IF single THEN <<0>> \o rgb
                                        ELSE <<5, channel, index>> \o rgb
            report_id == IF single THEN 1 ELSE 5
        IN  /\ arg' = [NoArg EXCEPT !.op = "set_color", !.color = color,
                                    !.channel = channel, !.index = index,
                                    !.inverse = inverse,
                                    !.max_rgb_value = max_rgb_value]
            /\ wire' = <<Transfer(32, 9, report_id, control_string)>>
            /\ UNCHANGED <<block, answer, pixel, animationVars, backendVars, effectVars>>

\* The client against a device that keeps the report of its first pixel as the
\* bytes it was sent and answers a read of report 1 with them, leading byte
\* first (base.py:333-346).  arg.inverse and arg.max_rgb_value are the client's
\* fields _inverse and _max_rgb_value; arg.color is the colour of the latest
\* set_color; arg.prev is the call before the latest.  set_color is called
\* with the default channel, on the first pixel or on the second.

\* inverse.setter, base.py:751-769, for a bool
inverse_set ==
    \E value \in BOOLEAN :
        /\ arg' = [arg EXCEPT !.op = "inverse", !.prev = arg.op, !.inverse = value]
        /\ wire' = <<>>
        /\ answer' = NoAnswer
        /\ UNCHANGED <<block, pixel, animationVars, backendVars, effectVars>>

\* max_rgb_value.setter, base.py:781-793
max_rgb_value_set ==
    \E value \in MaxValues :
        /\ arg' = [arg EXCEPT !.op = "max_rgb_value", !.prev = arg.op,
                              !.max_rgb_value = Max(0, Min(255, value))]
        /\ wire' = <<>>
        /\ answer' = NoAnswer
        /\ UNCHANGED <<block, pixel, animationVars, backendVars, effectVars>>

\* set_color that sends the colour as it was given, whatever _inverse holds.
set_color_uninverted ==
    \E color \in FrameColours, channel \in {0}, index \in {0, 1} :
        LET rgb == remap_to_new_range(color, arg.max_rgb_value)
            single == index = 0 /\ channel = 0
            control_string == IF single THEN <<0>> \o rgb
                                        ELSE <<5, channel, index>> \o rgb
        IN  /\ arg' = [arg EXCEPT !.op = "set_color", !.prev = arg.op,
                                  !.color = color, !.channel = channel,
                                  !.index = index]
            /\ wire' = <<Transfer(32, 9, IF single THEN 1 ELSE 5, control_string)>>
            /\ pixel' = IF single THEN control_string ELSE pixel
            /\ answer' = NoAnswer
            /\ UNCHANGED <<block, animationVars, backendVars, effectVars>>

\* BlinkStickClientBase.set_color, base.py:263-315, by the client with its
\* fields as they are; the device keeps the report of the first pixel.
set_color_sent ==
    \E color \in FrameColours, channel \in {0}, index \in {0, 1} :
        LET target == IF arg.inverse THEN invert(color) ELSE color
            rgb == remap_to_new_range(target, arg.max_rgb_value)
            single == index = 0 /\ channel = 0
            control_string == IF single THEN <<0>> \o rgb
                                        ELSE <<5, channel, index>> \o rgb
        IN  /\ arg' = [arg EXCEPT !.op = "set_color", !.prev = arg.op,
                                  !.color = color, !.channel = channel,
                                  !.index = index]
            /\ wire' = <<Transfer(32, 9, IF single THEN 1 ELSE 5, control_string)>>
            /\ pixel' = IF single THEN control_string ELSE pixel
            /\ answer' = NoAnswer
            /\ UNCHANGED <<block, animationVars, backendVars, effectVars>>

\* get_color that returns the bytes as they are, whatever _inverse holds.
get_color_uninverted ==
    /\ arg' = [arg EXCEPT !.op = "get_color", !.prev = arg.op]
    /\ wire' = <<Transfer(160, 1, 1, 33)>>
    /\ answer' = [done |-> TRUE, raised |-> FALSE,
                  value |-> <<pixel[2], pixel[3], pixel[4]>>]
    /\ UNCHANGED <<block, pixel, animationVars, backendVars, effectVars>>

\* BlinkStickClientBase.get_color() with its default index 0, base.py:332-347:
\* device_bytes is the report the device holds.
get_color ==
    /\ arg' = [arg EXCEPT !.op = "get_color", !.prev = arg.op]
    /\ wire' = <<Transfer(160, 1, 1, 33)>>
    /\ answer' = [done |-> TRUE, raised |-> FALSE,
                  value |-> IF arg.inverse
                            THEN <<255 - pixel[2], 255 - pixel[3], 255 - pixel[4]>>
                            ELSE <<pixel[2], pixel[3], pixel[4]>>]
    /\ UNCHANGED <<block, pixel, animationVars, backendVars, effectVars>>

\* The ladder with < in place of <=.
determine_report_id_strict(led_count) ==
    IF led_count < 8 * 3 THEN <<6, 8>>
    ELSE IF led_count < 16 * 3 THEN <<7, 16>>
    ELSE IF led_count < 32 * 3 THEN <<8, 32>>
    ELSE <<9, 64>>

\* utilities.py:63-80: (report_id, max_leds)
determine_report_id(led_count) ==
    IF led_count <= 8 * 3 THEN <<6, 8>>
    ELSE IF led_count <= 16 * 3 THEN <<7, 16>>
    ELSE IF led_count <= 32 * 3 THEN <<8, 32>>
    ELSE <<9, 64>>

\* Frame data of n bytes, none of them zero.
FrameByte(i) == 1 + ((i * 37) % 255)
FrameData(n) == [i \in 1..n |-> FrameByte(i)]

\* BlinkStickClientBase.set_led_data, base.py:387-415, for data = FrameData(n):
\* len(data) is n and data[i] is FrameByte(i + 1).
set_led_data ==
    \E channel \in ChannelValues, n \in 0..MaxData :
        LET id == determine_report_id(n)
            report == <<0, channel>>
                          \o [i \in 1..(id[2] * 3) |->
                                 IF n >= i THEN FrameByte(i) ELSE 0]
        IN  /\ arg' = [NoArg EXCEPT !.op = "set_led_data", !.channel = channel,
                                    !.data = FrameData(n)]
            /\ wire' = <<Transfer(32, 9, id[1], report)>>
            /\ UNCHANGED <<block, answer, pixel, animationVars, backendVars, effectVars>>

----------------------------------------------------------------------------
\* The effects.
\*
\* One thread executes run() of one animation object, statement by statement,
\* while another thread calls cancel() on that object.  Object 1 is the
\* animation, a BlinkAnimation, MorphAnimation or PulseAnimation; objects 2 and
\* 3 are the MorphAnimations morph_to and morph_back that PulseAnimation.run
\* creates.  The device is what the animations call: set_color(colour) and
\* turn_off() write a colour, get_color() reads it back.  A device write takes
\* two steps, the call and its return, so that cancel() can fall inside it; a
\* sleep takes one.

Effects == 1..3
Kinds == {"blink", "morph", "pulse"}
Channels == 1..3
Black == <<0, 0, 0>>
LedColours == {Black, <<254, 10, 255>>}
TargetColours == {<<255, 0, 0>>, <<1, 200, 0>>}
StepChoices == {4, 7}

NoWrite == [step |-> -1, from |-> Black, to |-> Black, color |-> Black]

\* (channel, index): Channel.RED (enums.py:127-141) and the first LED, and the
\* pixels an animation is made for.
DefaultAddress == <<0, 0>>
Addresses == {<<0, 0>>, <<0, 1>>}

effectFrame == <<observe, animatorVars, submitted, immediateUsed, workerVars, cpc,
                 finished, fence, stopped, barred, call, probe, backendVars, codecVars>>
effectParams == <<kind, steps, target_color, address>>
effectHistory == <<last, cancelAt, writesAfter, sleepsAfter, addressed>>

\* The entries of log: a device read with the colour read, a device write with
\* the colour written, a sleep.
Read(c) == <<"read", c>>
Write(c) == <<"write", c>>
Slept == <<"sleep", Black>>

\* Animation.__init__ (base.py:61-68) of the animation, and the constructor
\* arguments of the two MorphAnimations of a Pulse (pulse.py:83-90, 96-103).
EffectBegin ==
    /\ kind \in Kinds
    /\ steps \in StepChoices
    /\ led \in LedColours
    /\ \E c \in TargetColours : target_color = [o \in Effects |-> IF o = 3 THEN Black ELSE c]
    /\ epc = [o \in Effects |-> IF o = 1 THEN "start" ELSE "none"]
    /\ ei = [o \in Effects |-> 0]
    /\ current_color = [o \in Effects |-> Black]
    /\ kpc = "idle"
    /\ last = NoWrite
    /\ cancelAt = "none"
    /\ writesAfter = 0
    /\ sleepsAfter = 0
    /\ log = <<>>
    /\ addressed = {}

\* The animation is made for the first pixel: channel = Channel.RED and
\* index = 0, the defaults of the client's blink, morph and pulse
\* (clients/base.py:609-727).
EffectInit == EffectBegin /\ address = DefaultAddress

\* No animation is run directly.
EffectRest ==
    /\ kind = "none"
    /\ steps = 1
    /\ led = Black
    /\ target_color = [o \in Effects |-> Black]
    /\ epc = [o \in Effects |-> "none"]
    /\ ei = [o \in Effects |-> 0]
    /\ current_color = [o \in Effects |-> Black]
    /\ kpc = "idle"
    /\ last = NoWrite
    /\ cancelAt = "none"
    /\ writesAfter = 0
    /\ sleepsAfter = 0
    /\ log = <<>>
    /\ address = DefaultAddress
    /\ addressed = {}

\* Where the thread inside run() of the animation stands, inside a sub-Morph's
\* run() if it has called one.
Position ==
    IF epc[1] = "morph_to" THEN epc[2]
    ELSE IF epc[1] = "morph_back" THEN epc[3]
    ELSE epc[1]

\* A statement of run() of object o that changes nothing but the position.
Jump(o, pc) ==
    /\ epc' = [epc EXCEPT ![o] = pc]
    /\ UNCHANGED <<effectFrame, effectParams, state, stop_event, ei, current_color, led,
                   kpc, last, cancelAt, writesAfter, sleepsAfter, log, addressed>>

\* `if self.is_cancelled: return`
Check(o, pc) == Jump(o, IF is_cancelled(o) THEN "returned" ELSE pc)

\* The call of a device write.
BeginWrite(o, pc) ==
    /\ epc' = [epc EXCEPT ![o] = pc]
    /\ writesAfter' = IF stop_event[1] THEN writesAfter + 1 ELSE writesAfter
    /\ UNCHANGED <<effectFrame, effectParams, state, stop_event, ei, current_color, led,
                   kpc, last, cancelAt, sleepsAfter, log, addressed>>

\* time.sleep(...)
Sleep(o, pc, i) ==
    /\ epc' = [epc EXCEPT ![o] = pc]
    /\ ei' = [ei EXCEPT ![o] = i]
    /\ sleepsAfter' = IF stop_event[1] THEN sleepsAfter + 1 ELSE sleepsAfter
    /\ log' = Append(log, Slept)
    /\ UNCHANGED <<effectFrame, effectParams, state, stop_event, current_color, led,
                   kpc, last, cancelAt, writesAfter, addressed>>

\* turn_off() has returned (clients/base.py:597-607): set_color("black") with
\* the defaults channel = Channel.RED and index = 0 of set_color
\* (clients/base.py:263-268).  led is the colour of the animation's own pixel.
TurnedOff ==
    /\ led' = IF address = DefaultAddress THEN Black ELSE led
    /\ log' = Append(log, Write(Black))
    /\ addressed' = addressed \cup {DefaultAddress}

\* `self.state = AnimationState.RUNNING` / `... COMPLETED`
SetState(o, st, pc) ==
    /\ state' = [state EXCEPT ![o] = st]
    /\ epc' = [epc EXCEPT ![o] = pc]
    /\ UNCHANGED log
    /\ UNCHANGED <<effectFrame, effectParams, stop_event, ei, current_color, led, kpc,
                   effectHistory>>

\* Animation.cancel (base.py:95): self._stop_event.set()
effect_cancel_event ==
    /\ kpc = "idle"
    /\ epc[1] \notin {"none", "returned"}
    /\ stop_event' = [stop_event EXCEPT ![1] = TRUE]
    /\ cancelAt' = Position
    /\ kpc' = "state"
    /\ UNCHANGED <<effectFrame, effectParams, state, epc, ei, current_color, led, last,
                   writesAfter, sleepsAfter, log, addressed>>

\* Animation.cancel (base.py:96): self.state = AnimationState.CANCELLED
effect_cancel_state ==
    /\ kpc = "state"
    /\ state' = [state EXCEPT ![1] = CANCELLED]
    /\ kpc' = "done"
    /\ UNCHANGED log
    /\ UNCHANGED <<effectFrame, effectParams, stop_event, epc, ei, current_color, led,
                   effectHistory>>

\* BlinkAnimation.run (blink.py:44-72)

\* `for i in range(self.repeats)` (blink.py:54)
BlinkLoop(i) == IF i < repeats[1] THEN "check55" ELSE "complete"

\* blink.py:52
blink_start ==
    /\ kind = "blink"
    /\ epc[1] = "start"
    /\ SetState(1, RUNNING, BlinkLoop(0))

\* blink.py:55-58
blink_check55 ==
    /\ epc[1] = "check55"
    /\ Check(1, IF ei[1] > 0 THEN "sleep59" ELSE "set_color")

\* The loop of BlinkAnimation.run without the sleep between two repeats.
blink_skip59 ==
    /\ epc[1] = "sleep59"
    /\ Jump(1, "check60")

\* blink.py:59
blink_sleep59 ==
    /\ epc[1] = "sleep59"
    /\ Sleep(1, "check60", ei[1])

\* blink.py:60-61
blink_check60 ==
    /\ epc[1] = "check60"
    /\ Check(1, "set_color")

\* blink.py:63-65, the call
blink_set_color ==
    /\ kind = "blink"
    /\ epc[1] = "set_color"
    /\ BeginWrite(1, "set_color_wait")

\* blink.py:63-65, the return
blink_set_color_return ==
    /\ kind = "blink"
    /\ epc[1] = "set_color_wait"
    /\ led' = target_color[1]
    /\ epc' = [epc EXCEPT ![1] = "sleep66"]
    /\ log' = Append(log, Write(led'))
    /\ addressed' = addressed \cup {address}
    /\ UNCHANGED <<effectFrame, effectParams, state, stop_event, ei, current_color, kpc,
                   last, cancelAt, writesAfter, sleepsAfter>>

\* blink.py:66
blink_sleep66 ==
    /\ epc[1] = "sleep66"
    /\ Sleep(1, "check67", ei[1])

\* BlinkAnimation.run without the check of the flag after the sleep of line 66.
blink_unchecked67 ==
    /\ epc[1] = "check67"
    /\ Jump(1, "turn_off")

\* blink.py:67-68
blink_check67 ==
    /\ epc[1] = "check67"
    /\ Check(1, "turn_off")

\* blink.py:70, the call
blink_turn_off ==
    /\ kind = "blink"
    /\ epc[1] = "turn_off"
    /\ BeginWrite(1, "turn_off_wait")

\* blink.py:70, the return, and the next i
blink_turn_off_return ==
    /\ kind = "blink"
    /\ epc[1] = "turn_off_wait"
    /\ TurnedOff
    /\ ei' = [ei EXCEPT ![1] = ei[1] + 1]
    /\ epc' = [epc EXCEPT ![1] = BlinkLoop(ei[1] + 1)]
    /\ UNCHANGED <<effectFrame, effectParams, state, stop_event, current_color, kpc,
                   last, cancelAt, writesAfter, sleepsAfter>>

\* blink.py:72
blink_complete ==
    /\ kind = "blink"
    /\ epc[1] = "complete"
    /\ SetState(1, COMPLETED, "returned")

\* MorphAnimation.run (morph.py:50-87)

\* Object o is a MorphAnimation.
IsMorph(o) == o \in {2, 3} \/ kind = "morph"

\* morph.py:71-79
MorphColor(o) ==
    [c \in Channels |-> Interpolate(current_color[o][c], target_color[o][c], steps, ei[o])]

\* morph.py:59-67: the state, get_color(), and the first step of
\* range(self.steps + 1)
morph_start(o) ==
    /\ IsMorph(o)
    /\ epc[o] = "start"
    /\ state' = [state EXCEPT ![o] = RUNNING]
    /\ current_color' = [current_color EXCEPT ![o] = led]
    /\ ei' = [ei EXCEPT ![o] = 0]
    /\ epc' = [epc EXCEPT ![o] = "check68"]
    /\ log' = Append(log, Read(led))
    /\ UNCHANGED <<effectFrame, effectParams, stop_event, led, kpc, effectHistory>>

\* The loop of MorphAnimation.run without its check of the flag.
morph_unchecked(o) ==
    /\ epc[o] = "check68"
    /\ Jump(o, "set_color")

\* morph.py:68-69
morph_check(o) ==
    /\ epc[o] = "check68"
    /\ Check(o, "set_color")

\* morph.py:71-82, the call
morph_set_color(o) ==
    /\ IsMorph(o)
    /\ epc[o] = "set_color"
    /\ BeginWrite(o, "set_color_wait")

\* morph.py:80-84, the return; after the last step the loop ends
morph_set_color_return(o) ==
    /\ IsMorph(o)
    /\ epc[o] = "set_color_wait"
    /\ led' = MorphColor(o)
    /\ last' = [step |-> ei[o], from |-> current_color[o], to |-> target_color[o],
                color |-> led']
    /\ epc' = [epc EXCEPT ![o] = IF ei[o] < steps THEN "sleep85" ELSE "complete"]
    /\ log' = Append(log, Write(led'))
    /\ addressed' = addressed \cup {address}
    /\ UNCHANGED <<effectFrame, effectParams, state, stop_event, ei, current_color, kpc,
                   cancelAt, writesAfter, sleepsAfter>>

\* morph.py:85, and the next step
morph_sleep(o) ==
    /\ epc[o] = "sleep85"
    /\ Sleep(o, "check68", ei[o] + 1)

\* morph.py:87
morph_complete(o) ==
    /\ IsMorph(o)
    /\ epc[o] = "complete"
    /\ SetState(o, COMPLETED, "returned")

\* PulseAnimation.run (pulse.py:64-108)

\* `for x in range(self.repeats)` (pulse.py:78)
PulseLoop(x) == IF x < repeats[1] THEN "check79" ELSE "complete"

\* A new MorphAnimation o (Animation.__init__, base.py:66-67) whose run() is
\* called next.
NewMorph(o, pc) ==
    /\ state' = [state EXCEPT ![o] = QUEUED]
    /\ epc' = [p \in Effects |-> IF p = 1 THEN pc ELSE IF p = o THEN "start" ELSE "none"]

\* pulse.py:75
pulse_start ==
    /\ kind = "pulse"
    /\ epc[1] = "start"
    /\ SetState(1, RUNNING, "turn_off")

\* PulseAnimation.run without its turn_off().
pulse_skip_turn_off ==
    /\ kind = "pulse"
    /\ epc[1] = "turn_off"
    /\ Jump(1, PulseLoop(0))

\* pulse.py:76, the call
pulse_turn_off ==
    /\ kind = "pulse"
    /\ epc[1] = "turn_off"
    /\ BeginWrite(1, "turn_off_wait")

\* pulse.py:76, the return, and the first x
pulse_turn_off_return ==
    /\ kind = "pulse"
    /\ epc[1] = "turn_off_wait"
    /\ TurnedOff
    /\ ei' = [ei EXCEPT ![1] = 0]
    /\ epc' = [epc EXCEPT ![1] = PulseLoop(0)]
    /\ UNCHANGED <<effectFrame, effectParams, state, stop_event, current_color, kpc,
                   last, cancelAt, writesAfter, sleepsAfter>>

\* pulse.py:79-91: the check, morph_to = MorphAnimation(...), morph_to.run()
pulse_check79 ==
    /\ epc[1] = "check79"
    /\ IF is_cancelled(1)
       THEN /\ epc' = [epc EXCEPT ![1] = "returned"]
            /\ UNCHANGED state
       ELSE NewMorph(2, "morph_to")
    /\ UNCHANGED log
    /\ UNCHANGED <<effectFrame, effectParams, stop_event, ei, current_color, led, kpc,
                   effectHistory>>

\* pulse.py:92-104: morph_to.run() has returned; the check,
\* morph_back = MorphAnimation(...), morph_back.run()
pulse_check92 ==
    /\ epc[1] = "morph_to"
    /\ epc[2] = "returned"
    /\ IF is_cancelled(1) \/ is_cancelled(2)
       THEN /\ epc' = [epc EXCEPT ![1] = "returned", ![2] = "none"]
            /\ UNCHANGED state
       ELSE NewMorph(3, "morph_back")
    /\ UNCHANGED log
    /\ UNCHANGED <<effectFrame, effectParams, stop_event, ei, current_color, led, kpc,
                   effectHistory>>

\* pulse.py:105-106: morph_back.run() has returned; the check, and the next x
pulse_check105 ==
    /\ epc[1] = "morph_back"
    /\ epc[3] = "returned"
    /\ epc' = [epc EXCEPT ![1] = IF is_cancelled(1) \/ is_cancelled(3)
                                  THEN "returned" ELSE PulseLoop(ei[1] + 1),
                          ![3] = "none"]
    /\ ei' = [ei EXCEPT ![1] = ei[1] + 1]
    /\ UNCHANGED log
    /\ UNCHANGED <<effectFrame, effectParams, state, stop_event, current_color, led, kpc,
                   effectHistory>>

\* pulse.py:108
pulse_complete ==
    /\ kind = "pulse"
    /\ epc[1] = "complete"
    /\ SetState(1, COMPLETED, "returned")

InitEffect ==
    AnimatorInit /\ observe = "none" /\ BackendRest /\ EffectInit /\ CodecInit

NextEffect ==
    \/ effect_cancel_event
    \/ effect_cancel_state
    \/ blink_start
    \/ blink_check55
    \/ blink_sleep59
    \/ blink_check60
    \/ blink_set_color
    \/ blink_set_color_return
    \/ blink_sleep66
    \/ blink_check67
    \/ blink_turn_off
    \/ blink_turn_off_return
    \/ blink_complete
    \/ \E o \in Effects :
          \/ morph_start(o)
          \/ morph_check(o)
          \/ morph_set_color(o)
          \/ morph_set_color_return(o)
          \/ morph_sleep(o)
          \/ morph_complete(o)
    \/ pulse_start
    \/ pulse_turn_off
    \/ pulse_turn_off_return
    \/ pulse_check79
    \/ pulse_check92
    \/ pulse_check105
    \/ pulse_complete

SpecEffect == InitEffect /\ [][NextEffect]_vars

\* The same animations made for any pixel.
InitPixel ==
    /\ AnimatorInit /\ observe = "none" /\ BackendRest /\ CodecInit
    /\ EffectBegin /\ address \in Addresses

SpecPixel == InitPixel /\ [][NextEffect]_vars

----------------------------------------------------------------------------
\* The client writes and reads info block 1.
InitInfoBlock == AnimatorInit /\ observe = "none" /\ BackendRest /\ EffectRest /\ CodecInit

NextInfoBlock ==
    \/ info_block1_set
    \/ info_block1_get

SpecInfoBlock == InitInfoBlock /\ [][NextInfoBlock]_vars

\* The client sets colours and frames.
InitFrame == AnimatorInit /\ observe = "none" /\ BackendRest /\ EffectRest /\ CodecInit

NextFrame ==
    \/ set_color
    \/ set_led_data

SpecFrame == InitFrame /\ [][NextFrame]_vars

\* The client sets and reads the colour of the first pixel.  The device holds
\* any report when the client connects.
DevicePixels == {<<0, 0, 0, 0>>, <<0, 255, 0, 0>>, <<1, 10, 200, 255>>}

InitColor ==
    /\ AnimatorInit /\ observe = "none" /\ BackendRest /\ EffectRest
    /\ arg = NoArg
    /\ wire = <<>>
    /\ block = string_to_info_block_data(<<>>)
    /\ answer = NoAnswer
    /\ pixel \in DevicePixels

NextColor ==
    \/ inverse_set
    \/ max_rgb_value_set
    \/ set_color_sent
    \/ get_color

SpecColor == InitColor /\ [][NextColor]_vars

----------------------------------------------------------------------------
\* A client constructed without a device has no backend, base.py:96-97.
NoBackend == "none"

\* What a call answers that raises NotConnected("No backend set").
NotConnected == [done |-> TRUE, raised |-> TRUE, value |-> <<>>]

\* __getattribute__, base.py:119-130 with the mistake of handing out the
\* attribute itself.
wrapper_unguarded(attr) == attr

\* __getattribute__, base.py:119-130: a callable attribute is handed out inside
\* a wrapper that raises NotConnected when the client has no backend and calls
\* the attribute otherwise.  No attribute of the client is marked
\* no_backend_required (decorators.py:6-15).
wrapper(attr) ==
    IF backend = NoBackend
    THEN /\ answer' = NotConnected
         /\ UNCHANGED <<arg, wire, block, pixel, animationVars, backendVars, effectVars>>
    ELSE attr

\* The client with or without a device, base.py:74-97; the Animator is made
\* either way (base.py:94) and creates no thread (animator.py:35-44).
InitClient ==
    /\ AnimatorInit /\ observe = "none" /\ EffectRest /\ CodecInit
    /\ backend \in {NoBackend, "unix"}
    /\ attached = [u \in Units |-> 1]
    /\ plugs = [u \in Units |-> 1]
    /\ blinkstick_device = BlinkStickDevice(1, 1)
    /\ opened = blinkstick_device.raw_device
    /\ tpc = "idle"
    /\ xfer = NewTransfer("none")
    /\ lost = FALSE

\* The calls of the client's methods set_color, get_color and blink (queued,
\* base.py:684-688), each through the wrapper, and the steps that continue a
\* call that has begun.
NextClient ==
    \/ wrapper(set_color_sent)
    \/ wrapper(get_color)
    \/ \E c \in Callers :
          \/ wrapper(queue_animation(c))
          \/ queue_put(c)
    \/ \E w \in Workers :
          \/ worker_loop(w)
          \/ worker_get(w)
          \/ worker_lock(w)
          \/ worker_check(w)
          \/ worker_call(w)
          \/ run_start(w)
          \/ run_top(w)
          \/ run_wait(w)
          \/ run_sleep(w)
          \/ run_end(w)
          \/ worker_finally(w)

SpecClient == InitClient /\ [][NextClient]_vars

----------------------------------------------------------------------------
InitTransfer ==
    AnimatorInit /\ observe = "none" /\ BackendInit /\ EffectRest /\ CodecInit

NextTransfer ==
    \/ \E req \in Requests : control_transfer(req)
    \/ refresh
    \/ reopen
    \/ retry
    \/ \E u \in Units :
          \/ unplug(u)
          \/ plug(u)
          \/ new_transport(u)

SpecTransfer == InitTransfer /\ [][NextTransfer]_vars

Init == AnimatorInit /\ BackendRest /\ EffectRest /\ CodecInit

----------------------------------------------------------------------------
Next ==
    \/ \E c \in Callers :
          \/ start(c)
          \/ stop(c)
          \/ cancel_event(c)
          \/ cancel_state(c)
          \/ drain_empty(c)
          \/ drain_get(c)
          \/ stop_release(c)
          \/ queue_animation(c)
          \/ queue_put(c)
          \/ animate_immediately(c)
          \/ imm_start(c)
          \/ imm_put(c)
          \/ imm_release(c)
    \/ \E w \in Workers :
          \/ worker_loop(w)
          \/ worker_get(w)
          \/ worker_lock(w)
          \/ worker_check(w)
          \/ worker_call(w)
          \/ run_start(w)
          \/ run_top(w)
          \/ run_wait(w)
          \/ run_sleep(w)
          \/ run_raise(w)
          \/ run_end(w)
          \/ worker_finally(w)

Spec == Init /\ [][Next]_vars

----------------------------------------------------------------------------
\* Animator.start step by step, animator.py:46-61: the call, the wait for the
\* lock and the body are separate steps, so that calls of start() overlap each
\* other and stop().  Threads call start() and stop() only; no task is queued.

\* The call begins; history: whether it begins on a running Animator.
start_call(c) ==
    /\ Idle(c)
    /\ cpc' = [cpc EXCEPT ![c] = "start_lock"]
    /\ probe' = [probe EXCEPT !.cold = IF running THEN @ \ {c} ELSE @ \cup {c}]
    /\ UNCHANGED <<animatorVars, taskVars, workerVars, historyVars, backendVars,
                   effectVars, codecVars>>

\* animator.py:53: with self._lock
start_locked(c) ==
    /\ cpc[c] = "start_lock"
    /\ lock = None
    /\ lock' = c
    /\ cpc' = [cpc EXCEPT ![c] = "start_body"]
    /\ UNCHANGED <<running, animation_queue, current_animation, spawned, taskVars,
                   workerVars, historyVars, otherVars>>

\* The body without the test of line 54: a thread is spawned in any case.
start_unguarded(c) ==
    /\ cpc[c] = "start_body"
    /\ spawned < MaxWorkers
    /\ running' = TRUE
    /\ spawned' = spawned + 1
    /\ wpc' = [wpc EXCEPT ![spawned + 1] = "loop"]
    /\ lock' = None
    /\ cpc' = [cpc EXCEPT ![c] = "idle"]
    /\ UNCHANGED <<animation_queue, current_animation, taskVars, animation, wrun,
                   wi, historyVars, otherVars>>

\* animator.py:54-61: return if running, else set the flag and spawn the
\* worker; the lock is released on the way out.
start_body(c) ==
    /\ cpc[c] = "start_body"
    /\ CanStart
    /\ StartBody
    /\ lock' = None
    /\ cpc' = [cpc EXCEPT ![c] = "idle"]
    /\ UNCHANGED <<animation_queue, current_animation, taskVars, animation, wrun,
                   wi, historyVars, otherVars>>

InitStart == Init /\ observe = "none"

NextStart ==
    \/ \E c \in Callers :
          \/ start_call(c)
          \/ start_locked(c)
          \/ start_body(c)
          \/ stop(c)
          \/ drain_empty(c)
          \/ stop_release(c)
    \/ \E w \in Workers :
          \/ worker_loop(w)
          \/ worker_get(w)

SpecStart == InitStart /\ [][NextStart]_vars

----------------------------------------------------------------------------
\* Animator.is_animating, animator.py:183-197, evaluated by one thread at a
\* time while the threads queue tasks and stop the Animator.

\* lines 194-195: under the lock, is_running = self.current_animation is not None
is_animating(c) ==
    /\ Idle(c)
    /\ lock = None
    /\ ~probe.on
    /\ probe' = [probe EXCEPT !.on = TRUE, !.is_running = current_animation # None,
                              !.busy = Busy, !.gap = ~Busy, !.result = "none"]
    /\ cpc' = [cpc EXCEPT ![c] = "is_queued"]
    /\ UNCHANGED <<animatorVars, taskVars, workerVars, historyVars, backendVars,
                   effectVars, codecVars>>

\* The return without line 196: the queue is not looked at.
is_animating_current_only(c) ==
    /\ cpc[c] = "is_queued"
    /\ probe' = [probe EXCEPT !.on = FALSE,
                              !.result = IF probe.is_running THEN "True" ELSE "False"]
    /\ cpc' = [cpc EXCEPT ![c] = "idle"]
    /\ UNCHANGED <<animatorVars, taskVars, workerVars, historyVars, backendVars,
                   effectVars, codecVars>>

\* lines 196-197: without the lock, is_queued = not self.animation_queue.empty();
\* return is_running or is_queued
is_animating_return(c) ==
    /\ cpc[c] = "is_queued"
    /\ probe' = [probe EXCEPT !.on = FALSE,
                              !.result = IF probe.is_running \/ animation_queue # <<>>
                                            THEN "True" ELSE "False"]
    /\ cpc' = [cpc EXCEPT ![c] = "idle"]
    /\ UNCHANGED <<animatorVars, taskVars, workerVars, historyVars, backendVars,
                   effectVars, codecVars>>

InitProbe == Init /\ observe = "none"

NextProbe ==
    \/ \E c \in Callers :
          \/ is_animating(c)
          \/ is_animating_return(c)
          \/ queue_animation(c)
          \/ queue_put(c)
          \/ stop(c)
          \/ cancel_event(c)
          \/ cancel_state(c)
          \/ drain_empty(c)
          \/ drain_get(c)
          \/ stop_release(c)
    \/ \E w \in Workers :
          \/ worker_loop(w)
          \/ worker_get(w)
          \/ worker_lock(w)
          \/ worker_check(w)
          \/ worker_call(w)
          \/ run_start(w)
          \/ run_top(w)
          \/ run_wait(w)
          \/ run_sleep(w)
          \/ run_end(w)
          \/ worker_finally(w)

SpecProbe == InitProbe /\ [][NextProbe]_vars

----------------------------------------------------------------------------
\* The Animator in plain use: one thread calls queue_animation() only, nothing
\* stops or overrides.  The worker is a thread of its own that the scheduler
\* keeps running, hence the weak fairness of its steps.
InitQueue == Init /\ observe = "call"

WorkerStep(w) ==
    \/ worker_loop(w)
    \/ worker_get(w)
    \/ worker_lock(w)
    \/ worker_check(w)
    \/ worker_call(w)
    \/ run_start(w)
    \/ run_top(w)
    \/ run_wait(w)
    \/ run_sleep(w)
    \/ run_raise(w)
    \/ run_end(w)
    \/ worker_finally(w)

NextQueue ==
    \/ \E c \in Callers :
          \/ queue_animation(c)
          \/ queue_put(c)
    \/ \E w \in Workers : WorkerStep(w)

SpecQueue ==
    InitQueue /\ [][NextQueue]_vars /\ \A w \in Workers : WF_vars(WorkerStep(w))

----------------------------------------------------------------------------
\* The steps that continue a call of stop(), queue_animation() or
\* animate_immediately() that thread c has begun.
Continue(c) ==
    \/ cancel_event(c)
    \/ cancel_state(c)
    \/ drain_empty(c)
    \/ drain_get(c)
    \/ stop_release(c)
    \/ queue_put(c)
    \/ imm_start(c)
    \/ imm_put(c)
    \/ imm_release(c)

\* Threads queue animations and stop the Animator.  A thread inside a call goes
\* on with it and a worker thread goes on with its loop, hence the weak
\* fairness of those steps; nothing obliges a thread to make a new call.
InitStop == Init /\ observe = "none"

NextStop ==
    \/ \E c \in Callers :
          \/ queue_animation(c)
          \/ queue_put(c)
          \/ stop(c)
          \/ cancel_event(c)
          \/ cancel_state(c)
          \/ drain_empty(c)
          \/ drain_get(c)
          \/ stop_release(c)
    \/ \E w \in Workers : WorkerStep(w)

SpecStop ==
    /\ InitStop /\ [][NextStop]_vars
    /\ \A w \in Workers : WF_vars(WorkerStep(w))
    /\ \A c \in Callers : WF_vars(Continue(c))

----------------------------------------------------------------------------
\* Positions of a worker that are inside run().
RunPcs == {"run_start", "run_top", "run_wait", "run_sleep", "run_end"}

InRun(w) == wpc[w] \in RunPcs

\* No thread is inside a method of the Animator or inside the worker loop.
Quiescent ==
    /\ ~running
    /\ \A w \in Workers : wpc[w] \in {"unborn", "exited"}
    /\ \A c \in Callers : cpc[c] = "idle"

\* No cancel() is called on t, run() has been invoked on t and has left t's state
\* Running, and no worker is inside it: t's run() has raised.
Failed(t) == state[t] = RUNNING /\ ~is_cancelled(t) /\ \A w \in Workers : wrun[w] # t

\* C1: at any moment at most one worker is inside a task's run().
C1_OneRunAtATime ==
    \A w1, w2 \in Workers : (InRun(w1) /\ InRun(w2)) => w1 = w2

\* C2: once animate_immediately() has returned, every task put before the call
\* whose run() had not been invoked by then is cancelled, and no worker invokes
\* its run() any more.
C2_ImmediateOverrides ==
    \A t \in Tasks :
        "imm_pending" \in barred[t] =>
            /\ is_cancelled(t)
            /\ \A w \in Workers : wrun[w] # t

\* C3: when animate_immediately() puts its task, the queue it has drained is still
\* empty: no queue_animation() of another thread has put a task in between.
C3_ImmediateAtomic ==
    [][\A c \in Callers :
          (cpc[c] = "imm_put" /\ cpc'[c] = "imm_release") => animation_queue = <<>>]_vars

\* C4: tasks are put with queue_animation() only and stop() is then called; once
\* every thread has come to rest the queue is empty and each of those tasks is
\* Cancelled or Completed (a task whose run() has raised apart: that is C11's
\* case).
C4_StopLeavesTerminal ==
    (observe = "drain" /\ Quiescent /\ ~immediateUsed /\ stopped = 1..submitted) =>
        /\ animation_queue = <<>>
        /\ \A t \in 1..submitted : state[t] \in Terminal \/ Failed(t)

\* C5: a task put before a stop() began, which a worker had taken off the queue
\* and not yet made current when stop() ran, never has run() invoked after that
\* stop() has returned.
C5_StoppedNeverRuns ==
    \A t \in Tasks :
        "stop_pending" \in barred[t] => \A w \in Workers : wrun[w] # t

\* C6: of two tasks put by queue_animation() with no stop() or
\* animate_immediately() before, between or after them, the later one does not
\* begin run() before the run() of the earlier one has returned.
C6_SubmissionOrder ==
    observe = "order" =>
        \A w \in Workers :
            wpc[w] = "run_start" =>
                \A t \in 1..(wrun[w] - 1) :
                    (t \notin fence /\ wrun[w] \notin fence) => t \in finished

\* C7: a task whose state is Completed or Cancelled keeps that state.
C7_TerminalIsFinal ==
    [][\A t \in Tasks : state[t] \in Terminal => state'[t] = state[t]]_vars

\* C8: a task on which cancel() was called while it was Queued and before run()
\* was invoked never has run() invoked and never enters Running.
C8_CancelledQueuedNeverRuns ==
    \A t \in Tasks :
        "queued_cancel" \in barred[t] =>
            /\ state[t] # RUNNING
            /\ \A w \in Workers : wrun[w] # t

\* C9: animate_immediately(t) takes the lock while a task A is current and two
\* tasks B and C are in the queue; when it returns it has called cancel() once
\* on each of A, B and C and on nothing else, and the queue is exactly <<t>>.
C9_ImmediateCancelsAll ==
    [][\A c \in Callers :
          (/\ cpc[c] = "imm_release" /\ cpc'[c] = "idle"
           /\ call.cur0 # None /\ Len(call.q0) = 2) =>
              /\ Len(call.cancels) = 3
              /\ {call.cancels[i] : i \in 1..Len(call.cancels)}
                     = {call.cur0, call.q0[1], call.q0[2]}
              /\ animation_queue' = <<call.task>>]_vars

\* C10: when a stop() of a running Animator returns (here with one controlling
\* thread), the running flag is False, current_animation is None and the queue
\* is empty.
C10_StopResets ==
    [][\A c \in Callers :
          (observe = "call" /\ cpc[c] = "stop_release" /\ cpc'[c] = "idle") =>
              /\ ~running'
              /\ current_animation' = None
              /\ animation_queue' = <<>>]_vars

\* C11: in plain use (SpecQueue), once a task's run() has raised, the worker
\* thread is still alive, the task is not put back into the queue and its run()
\* is not invoked again; current_animation is cleared afterwards, and the task
\* then at the head of the queue is taken and its run() invoked.
C11_FailureIsContained ==
    /\ [](\A t \in Tasks :
             Failed(t) =>
                 /\ \A w \in Workers : wpc[w] # "exited"
                 /\ \A i \in 1..Len(animation_queue) : animation_queue[i] # t)
    /\ [][\A t \in Tasks : Failed(t) => Failed(t)']_vars
    /\ \A t \in Tasks : Failed(t) ~> (current_animation = None)
    /\ \A t, u \in Tasks :
           (Failed(t) /\ animation_queue # <<>> /\ Head(animation_queue) = u)
               ~> (state[u] # QUEUED)

\* C11 witness: the first task's run() has raised and the next task has been run
\* to completion by the same worker.
C11_Witness ==
    /\ Failed(1)
    /\ state[2] = COMPLETED
    /\ \A w \in Workers : wpc[w] # "exited"

\* The control_transfer has returned or raised.
Returned == tpc = "idle" /\ xfer.request # "none"

\* C12: a control_transfer whose first attempt failed, whose discovery found the
\* device and whose retry succeeded has made one discovery and two transfers,
\* the second on the device it now owns and has opened, and the caller gets the
\* result and no error.
C12_RecoveredTransferSucceeds ==
    (Returned /\ xfer.first = "fail" /\ xfer.found = "yes" /\ xfer.retry = "ok") =>
        /\ xfer.outcome = "ok"
        /\ xfer.attempts = 2
        /\ xfer.discoveries = 1
        /\ xfer.on = blinkstick_device.raw_device
        /\ opened = blinkstick_device.raw_device
        /\ blinkstick_device.serial = xfer.before.serial

\* C12 witness: the unit was pulled and put back, the first attempt failed on the
\* old attachment, and the retry succeeded on the new one.
C12_Witness ==
    /\ Returned /\ xfer.first = "fail" /\ xfer.found = "yes" /\ xfer.retry = "ok"
    /\ blinkstick_device # xfer.before

\* C13: a control_transfer whose first attempt failed, whose discovery found the
\* device and whose retry failed too raises BlinkStickException.
C13_SecondFailureIsDeviceLost ==
    (Returned /\ xfer.first = "fail" /\ xfer.found = "yes" /\ xfer.retry = "fail") =>
        xfer.outcome = "BlinkStickException"

\* C14: a control_transfer whose first attempt failed and whose discovery found
\* no device of its serial number raises BlinkStickException, has made no second
\* transfer and owns the device it owned before.
C14_MissingDeviceIsDeviceLost ==
    (Returned /\ xfer.first = "fail" /\ xfer.found = "no") =>
        /\ xfer.outcome = "BlinkStickException"
        /\ xfer.attempts = 1
        /\ xfer.retry = "none"
        /\ blinkstick_device = xfer.before

\* C14 witness: the unit is off the bus and the call has raised.
C14_Witness ==
    /\ Returned /\ xfer.first = "fail" /\ xfer.found = "no"
    /\ attached[blinkstick_device.serial] = 0

\* C15: once a control_transfer of a Transport has raised BlinkStickException, no
\* later control_transfer of that Transport succeeds.
C15_DeviceLostIsPermanent ==
    lost => xfer.outcome # "ok"

\* C16: a control_transfer makes at most two transfers and at most one discovery
\* pass; when its first attempt succeeds it has returned after one transfer and
\* no discovery.
C16_BoundedAttempts ==
    /\ xfer.attempts <= 2
    /\ xfer.discoveries <= 1
    /\ xfer.first = "ok" => (tpc = "idle" /\ xfer.attempts = 1 /\ xfer.discoveries = 0)
    /\ xfer.retry # "none" => tpc = "idle"

\* C16 witness: a call has ended after two failed transfers and one discovery.
C16_Witness ==
    Returned /\ xfer.attempts = 2 /\ xfer.discoveries = 1 /\ xfer.retry = "fail"

\* C17: except when the caller builds a new Transport, a step leaves the serial
\* number of the owned device as it is, and the owned raw device is always an
\* attachment of the unit with that serial number.
C17_SerialNeverChanges ==
    [][\/ \E u \in Units : new_transport(u)
       \/ /\ blinkstick_device'.serial = blinkstick_device.serial
          /\ blinkstick_device'.raw_device.unit = blinkstick_device.serial]_vars

\* C17 witness: the owned device has been replaced by a later attachment of the
\* same unit while another unit with the same vendor and product id, listed
\* before it, is on the bus.
C17_Witness ==
    /\ Returned /\ xfer.found = "yes"
    /\ blinkstick_device # xfer.before
    /\ blinkstick_device.serial = 2
    /\ attached[1] # 0

\* A device write is in progress: the call has been made and has not returned.
WritePcs == {"set_color_wait", "turn_off_wait"}

\* C18, as claimed: a BlinkAnimation or MorphAnimation checks the flag after
\* every device write and before every sleep: when cancel() sets the flag
\* while a device write is in progress, run() returns without sleeping again.
C18_NoSleepAfterCancelledWrite ==
    kind \in {"blink", "morph"} /\ cancelAt \in WritePcs => sleepsAfter = 0

\* Where run() stands between a passed check of the flag and the call of the
\* device write the check guards.
BeforeWritePcs == {"set_color", "turn_off"}

\* C18, as the code has it: a BlinkAnimation or MorphAnimation checks the flag
\* before every device write, and not between a write and the sleep that
\* follows it.  Once cancel() has set the flag, run() begins at most one more
\* device write, and that only if its check had passed already, and at most
\* one more sleep; a flag set while a write is in progress is followed by no
\* further write.
C18_SleepThenReturn ==
    kind \in {"blink", "morph"} =>
        /\ writesAfter <= 1
        /\ sleepsAfter <= 1
        /\ writesAfter = 1 => cancelAt \in BeforeWritePcs
        /\ cancelAt \in WritePcs => writesAfter = 0

\* cancel() fell inside a device write; run() has slept once more and returned.
C18_Witness ==
    /\ kind \in {"blink", "morph"}
    /\ cancelAt \in WritePcs
    /\ sleepsAfter = 1
    /\ writesAfter = 0
    /\ epc[1] = "returned"

\* C19: once cancel() has set the flag of a running PulseAnimation, the
\* sub-Morph in flight stops at its next step boundary: run() begins at most
\* one more device write.
C19_PulseStopsAtNextStep ==
    kind = "pulse" => writesAfter <= 1

\* C20: the colour a MorphAnimation writes at step k is, in every channel,
\* clamp(trunc(s + (t - s) * k / n), 0, 255) for the colour s read at the
\* start, the target t and n steps.
C20_MorphTruncatesExactly ==
    last.step >= 0 =>
        last.color = [c \in Channels |-> Exact(last.from[c], last.to[c], steps, last.step)]

\* run() of the animation has returned and cancel() was never called on it.
RanUncancelled(k) == kind = k /\ epc[1] = "returned" /\ kpc = "idle"

\* The kinds of the entries of a log.
Ops(l) == [i \in 1..Len(l) |-> l[i][1]]

\* The reads, writes and sleeps of a MorphAnimation of n steps: one read, then
\* n + 1 writes with a sleep between every two.
MorphOps(n) ==
    [i \in 1..(2 * n + 2) |-> IF i = 1 THEN "read" ELSE IF i % 2 = 0 THEN "write" ELSE "sleep"]

\* C21: an uncancelled MorphAnimation of n >= 1 steps reads the device once,
\* before any write, then writes n + 1 times with exactly n sleeps between the
\* writes and none after the last; the last colour written is the target
\* colour and the state ends Completed.
C21_MorphRunsToTarget ==
    RanUncancelled("morph") =>
        /\ Ops(log) = MorphOps(steps)
        /\ log[Len(log)] = Write(target_color[1])
        /\ state[1] = COMPLETED

\* C22: an uncancelled BlinkAnimation of N repeats writes 2N times, the target
\* colour and off in turn, with a sleep between every two consecutive writes
\* and none before the first; the state ends Completed.
C22_BlinkAlternates ==
    RanUncancelled("blink") =>
        /\ log = [i \in 1..(4 * repeats[1] - 1) |->
                    IF i % 2 = 0 THEN Slept
                    ELSE IF i % 4 = 1 THEN Write(target_color[1])
                    ELSE Write(Black)]
        /\ state[1] = COMPLETED

C22_Witness == RanUncancelled("blink") /\ Len(log) > 4

\* The log of a MorphAnimation of n steps to t on a device that shows s, and the
\* colour it leaves.
MorphWrite(s, t, n, k) == Write([c \in Channels |-> Interpolate(s[c], t[c], n, k)])

MorphLog(s, t, n) ==
    [i \in 1..(2 * n + 2) |->
        IF i = 1 THEN Read(s)
        ELSE IF i % 2 = 0 THEN MorphWrite(s, t, n, (i - 2) \div 2)
        ELSE Slept]

MorphEnd(s, t, n) == MorphWrite(s, t, n, n)[2]

\* x times a Morph to colour c followed by a Morph to black, begun on a device
\* that shows s.
RECURSIVE PulseLog(_, _, _, _)
PulseLog(x, s, c, n) ==
    IF x = 0 THEN <<>>
    ELSE LET lit == MorphEnd(s, c, n)
         IN  MorphLog(s, c, n) \o MorphLog(lit, Black, n)
                \o PulseLog(x - 1, MorphEnd(lit, Black, n), c, n)

\* C23: an uncancelled PulseAnimation of N repeats writes off once, first, and
\* then does N times what a Morph to the colour and then a Morph to black do,
\* each of the Pulse's steps; the last colour written is black and the state
\* ends Completed.
C23_PulseChainsMorphs ==
    RanUncancelled("pulse") =>
        /\ log = <<Write(Black)>> \o PulseLog(repeats[1], Black, target_color[1], steps)
        /\ log[Len(log)] = Write(Black)
        /\ state[1] = COMPLETED

C23_Witness == RanUncancelled("pulse") /\ Len(log) > 4 * steps

\* C24: start() is idempotent and guarded: a start() that finds the Animator
\* running leaves the flag True, spawns nothing and leaves the worker threads
\* alone; one that finds it stopped sets the flag and spawns exactly one
\* worker; and a worker is only ever spawned by a step that turns the flag
\* from False to True, so overlapping start() calls on a stopped Animator
\* spawn one worker between them.
C24_StartGuarded ==
    [][/\ \A c \in Callers :
            cpc[c] = "start_body" /\ cpc'[c] = "idle" =>
                /\ running'
                /\ IF running THEN spawned' = spawned /\ wpc' = wpc
                              ELSE spawned' = spawned + 1
       /\ spawned' # spawned => ~running /\ running' /\ spawned' = spawned + 1]_vars

\* Two start() calls that both began on the stopped Animator have returned:
\* the second found it running, and one worker was spawned.
C24_Witness ==
    /\ probe.cold = Callers
    /\ \A c \in Callers : cpc[c] = "idle"
    /\ running
    /\ spawned = 1
\* Task t is in the queue.
InQueue(t) == \E i \in 1..Len(animation_queue) : animation_queue[i] = t

\* Task t is held by a worker: taken off the queue, current, or inside run().
Taken(t) ==
    \/ current_animation = t
    \/ \E w \in Workers : animation[w] = t \/ wrun[w] = t

\* C25: in plain use (SpecQueue), a queue_animation(a) on an Animator that is
\* not running starts it: when the call returns the flag is True, a worker
\* thread is alive and a is at the tail of the queue; and a task put is never
\* dropped: it is in the queue or held by a worker until its run() has begun.
C25_QueueStarts ==
    /\ [][\A c \in Callers :
             cpc[c] = "q_put" /\ cpc'[c] = "idle" =>
                 /\ running'
                 /\ \E w \in Workers : wpc'[w] \notin {"unborn", "exited"}
                 /\ animation_queue' # <<>>
                 /\ animation_queue'[Len(animation_queue')] = submitted']_vars
    /\ [](\A t \in 1..submitted : state[t] = QUEUED => InQueue(t) \/ Taken(t))

\* The first queue_animation(), made on the Animator as constructed, has
\* returned: the Animator runs and the task waits in the queue.
C25_Witness ==
    /\ submitted = 1
    /\ \A c \in Callers : cpc[c] = "idle"
    /\ running
    /\ spawned = 1
    /\ animation_queue = <<1>>
\* C26: is_animating returns False when no task was current or in the queue
\* during its evaluation, and True whenever, at every moment of the evaluation,
\* some task was current or in the queue.
C26_IsAnimatingExact ==
    probe.result # "none" =>
        /\ ~probe.busy => probe.result = "False"
        /\ ~probe.gap => probe.result = "True"

\* C26 as the code has it: False when no task was current or in the queue
\* during the evaluation; True exactly when a task was current at the moment
\* the lock was held or the queue was not empty at the later moment it was
\* read.
C26_IsAnimatingSnapshot ==
    /\ [](probe.result # "none" /\ ~probe.busy => probe.result = "False")
    /\ [][\A c \in Callers :
             cpc[c] = "is_queued" /\ cpc'[c] = "idle" =>
                 (probe'.result = "True" <=>
                      (probe.is_running \/ animation_queue # <<>>))]_vars

\* An evaluation has returned True, for the queue alone, with a task current
\* or in the queue at every moment.
C26_Witness ==
    /\ probe.result = "True"
    /\ ~probe.on
    /\ ~probe.is_running
    /\ ~probe.gap
\* The first max_buffer_size bytes of a buffer.
First(b) == SubSeq(b, 1, Min(Len(b), max_buffer_size))

\* The bytes of a buffer before its first zero byte.
BeforeZero(b) ==
    IF \E i \in 1..Len(b) : b[i] = 0
    THEN SubSeq(b, 1, (CHOOSE i \in 1..Len(b) :
                           b[i] = 0 /\ \A j \in 1..(i - 1) : b[j] # 0) - 1)
    ELSE b

\* What the setter of info_block1 sends for the string data: 0x01, the first 31
\* bytes of data, zeros up to 32 bytes.
Sent(data) ==
    Transfer(32, 9, 2,
             [i \in 1..(max_buffer_size + 1) |->
                 IF i = 1 THEN 1
                 ELSE IF i - 1 <= Len(First(encode(data)))
                 THEN First(encode(data))[i - 1]
                 ELSE 0])

C28_UnterminatedIsError ==
    (arg.op = "info_block1_get" /\ \A i \in 2..Len(block) : block[i] # 0) =>
        answer.raised

\* C29: set_color issues one control transfer with request type 0x20 and
\* request 0x9; for channel 0 and index 0 its payload is [0, r, g, b] and its
\* report id 1, otherwise [5, channel, index, r, g, b] and 5, where (r, g, b)
\* is the colour inverted (when the client inverts) and then remapped to the
\* client's maximum.
C29_SetColorFraming ==
    arg.op = "set_color" =>
        LET c == IF arg.inverse THEN [i \in 1..3 |-> 255 - arg.color[i]]
                                ELSE arg.color
            rgb == [i \in 1..3 |-> remap_component(c[i], arg.max_rgb_value)]
        IN  /\ Len(wire) = 1
            /\ wire[1].request_type = 32
            /\ wire[1].request = 9
            /\ IF arg.channel = 0 /\ arg.index = 0
                  THEN wire[1].value = 1 /\ wire[1].data = <<0>> \o rgb
                  ELSE /\ wire[1].value = 5
                       /\ wire[1].data = <<5, arg.channel, arg.index>> \o rgb

\* set_color on the first pixel of channel 0, by a client that inverts and
\* limits the brightness.
C29_Witness ==
    /\ arg.op = "set_color"
    /\ arg.channel = 0
    /\ arg.index = 0
    /\ arg.inverse
    /\ arg.max_rgb_value = 85
    /\ arg.color = <<147, 200, 1>>

\* The ladder of set_led_data: LEDs per report, and the report id of each.
Ladder == {8, 16, 32, 64}
LadderId(m) == CASE m = 8 -> 6 [] m = 16 -> 7 [] m = 32 -> 8 [] m = 64 -> 9

\* C30: for frame data of length L with 0 <= L <= 192, set_led_data takes the
\* smallest M of the ladder with 3 * M >= L, uses report id 6, 7, 8 or 9
\* respectively, and sends 2 + 3 * M bytes: 0, the channel, the data unchanged,
\* then zeros.
C30_LedDataLadder ==
    (arg.op = "set_led_data" /\ Len(arg.data) <= 192) =>
        LET L == Len(arg.data)
            M == CHOOSE m \in Ladder :
                     3 * m >= L /\ \A k \in Ladder : 3 * k >= L => m <= k
        IN  /\ Len(wire) = 1
            /\ wire[1].request_type = 32
            /\ wire[1].request = 9
            /\ wire[1].value = LadderId(M)
            /\ Len(wire[1].data) = 2 + 3 * M
            /\ wire[1].data[1] = 0
            /\ wire[1].data[2] = arg.channel
            /\ \A i \in 1..(3 * M) :
                   wire[1].data[2 + i] = IF i <= L THEN arg.data[i] ELSE 0

\* Frame data of 24 bytes, the most the first report takes, was sent.
C30_Witness ==
    /\ arg.op = "set_led_data"
    /\ Len(arg.data) = 24
    /\ wire[1].value = 6
\* set_color((255, 0, 0)) on the first pixel at full brightness, then
\* get_color().
SetRedThenGet ==
    /\ arg.op = "get_color"
    /\ arg.prev = "set_color"
    /\ arg.color = <<255, 0, 0>>
    /\ arg.index = 0
    /\ arg.max_rgb_value = 255

\* C31: on a device that stores what is written to it, at full brightness,
\* set_color((255,0,0)) followed by get_color() returns (255,0,0) when the
\* client does not invert and (0,255,255) when it inverts.
C31_SetThenGet ==
    SetRedThenGet =>
        answer.value = IF arg.inverse THEN <<0, 255, 255>> ELSE <<255, 0, 0>>

\* C31 as the code has it: get_color() returns (255,0,0) whether the client
\* inverts or not; when it inverts, it is the device that holds (0,255,255).
C31_SetThenGetSame ==
    SetRedThenGet =>
        /\ answer.value = <<255, 0, 0>>
        /\ pixel = IF arg.inverse THEN <<0, 0, 255, 255>> ELSE <<0, 255, 0, 0>>

\* An inverting client has set (255,0,0) and read the colour back.
C31_Witness == SetRedThenGet /\ arg.inverse

\* C32: get_color() strips the leading byte of the device's answer
\* [report id, r, g, b, ...] and returns (r, g, b) when the client does not
\* invert and (255 - r, 255 - g, 255 - b) when it does.
C32_GetColorInverts ==
    arg.op = "get_color" =>
        /\ ~answer.raised
        /\ \A i \in 1..3 :
               answer.value[i] = IF arg.inverse THEN 255 - pixel[i + 1]
                                                ELSE pixel[i + 1]

\* An inverting client has read the colour of a device that it did not write.
C32_Witness ==
    /\ arg.op = "get_color"
    /\ arg.inverse
    /\ pixel = <<1, 10, 200, 255>>
    /\ answer.value = <<245, 55, 0>>

\* C33: a call of a method of a client that has no backend raises NotConnected
\* and does nothing else: no control transfer is made, no animation is queued
\* and no worker thread is started.
C33_NoBackendNoEffect ==
    /\ [](backend = NoBackend =>
            /\ wire = <<>>
            /\ xfer = NewTransfer("none")
            /\ animation_queue = <<>>
            /\ submitted = 0
            /\ spawned = 0
            /\ answer \in {NoAnswer, NotConnected})
    /\ [][backend = NoBackend => answer' = NotConnected]_vars

C33_Witness == backend = NoBackend /\ answer = NotConnected

\* A worker thread that has been started and has not left _animation_worker.
Live(w) == wpc[w] \notin {"unborn", "exited"}

\* C34: at any moment at most one worker thread of the Animator is alive.
C34_OneLiveWorker ==
    \A w1, w2 \in Workers : (Live(w1) /\ Live(w2)) => w1 = w2

\* C35: no task that was put on the queue stays Queued for ever: when every
\* call has returned and no worker thread is left, so that nothing more happens
\* unless a new call is made, no task put so far is still Queued.
C35_NoTaskStaysQueued ==
    Quiescent => \A t \in 1..submitted : state[t] # QUEUED

\* C36: while a worker is inside run() it does not hold the lock; the lock is
\* free or held by a thread inside stop() or animate_immediately(), and a
\* thread inside a call can always take the call's next step, whatever the
\* workers are doing: the call completes without waiting for run().
C36_RunOutsideLock ==
    /\ \A w \in Workers : InRun(w) => lock # 0 - w
    /\ lock # None => lock \in Callers /\ cpc[lock] \notin {"idle", "q_put"}
    /\ \A c \in Callers : cpc[c] # "idle" => ENABLED Continue(c)

C36_Witness ==
    \E w \in Workers, c \in Callers :
        InRun(w) /\ state[wrun[w]] = RUNNING /\ cpc[c] = "stop_release"

\* C37: once cancel() has set the flag of a running BlinkAnimation or
\* MorphAnimation, run() begins at most one more device write and at most one
\* more sleep, and after that sleep it writes nothing more: it returns at the
\* check that follows.
C37_BoundedResponse ==
    /\ [](kind \in {"blink", "morph"} => writesAfter <= 1 /\ sleepsAfter <= 1)
    /\ [][(kind \in {"blink", "morph"} /\ sleepsAfter = 1) =>
              (writesAfter' = writesAfter /\ sleepsAfter' = 1)]_vars

\* cancel() came after a passed check; run() has written once more, slept once
\* more and returned.
C37_Witness ==
    /\ kind \in {"blink", "morph"}
    /\ stop_event[1]
    /\ writesAfter = 1
    /\ sleepsAfter = 1
    /\ epc[1] = "returned"

\* C38: a BlinkAnimation, MorphAnimation or PulseAnimation whose flag was set
\* before the first statement of run() begins no device write.
C38_CancelledBeforeRunWritesNothing ==
    cancelAt = "start" => writesAfter = 0

\* C39: every device write of a BlinkAnimation or PulseAnimation goes to the
\* (channel, index) the animation was made for, the 'off' writes included.
C39_WritesOwnPixel ==
    kind \in {"blink", "pulse"} => addressed \subseteq {address}

\* C40: once stop() has cleared the flag, every worker thread leaves its loop
\* unless the Animator is started again: a worker that tests the cleared flag
\* at the head of its loop, or under the lock after a get(), exits there and
\* begins nothing new, and eventually no worker is alive.
C40_StoppedWorkerExits ==
    /\ (~running) ~> (running \/ \A w \in Workers : ~Live(w))
    /\ [][\A w \in Workers :
              (~running /\ ~running' /\ wpc[w] \in {"loop", "lock"} /\ wpc'[w] # wpc[w])
                  => wpc'[w] = "exited"]_vars

\* stop() has cancelled a task and returned, no call is in progress and the
\* workers that were started have exited.
C40_Witness ==
    /\ ~running /\ spawned >= 1 /\ lock = None
    /\ \A c \in Callers : cpc[c] = "idle"
    /\ \A w \in Workers : ~Live(w)
    /\ \E t \in 1..submitted : state[t] = CANCELLED

====
